---- MODULE Spec2Model ----
(***************************************************************************)
(* Model of the profile-to-recommendation pipeline of future-fit-finder:   *)
(* the recommend and parse-cv edge functions.  Texts are TLA+ strings, so  *)
(* trimming, fence stripping and JSON decoding are computed on characters. *)
(***************************************************************************)
EXTENDS Integers, Sequences, FiniteSets, TLC

\* ------------------------------------------------------------------ bounds
MaxRecs == 4
MaxRows == 2

\* ------------------------------------------------------- string primitives
\* the backtick character: TLA+ string literals cannot hold U+0060, "^" stands for it
BT == "^"
Fence == BT \o BT \o BT
Ch(s, i) == SubSeq(s, i, i)
IsWs(c) == c \in {" ", "\n", "\t", "\r"}

RECURSIVE TrimStart(_)
TrimStart(s) ==
  IF Len(s) > 0 /\ IsWs(Ch(s, 1)) THEN TrimStart(SubSeq(s, 2, Len(s))) ELSE s

RECURSIVE TrimEnd(_)
TrimEnd(s) ==
  IF Len(s) > 0 /\ IsWs(Ch(s, Len(s))) THEN TrimEnd(SubSeq(s, 1, Len(s) - 1)) ELSE s

\* String.prototype.trim
Trim(s) == TrimEnd(TrimStart(s))

\* String.prototype.startsWith
StartsWith(s, p) == Len(s) >= Len(p) /\ SubSeq(s, 1, Len(p)) = p

\* String.prototype.indexOf(p, from), 1-based; 0 when p does not occur
IndexOf(s, p, from) ==
  LET hits == {i \in from..(Len(s) - Len(p) + 1) : SubSeq(s, i, i + Len(p) - 1) = p}
  IN  IF hits = {} THEN 0 ELSE CHOOSE i \in hits : \A j \in hits : i <= j

\* s.split(d)[1] for a string s that contains d: the text between the first
\* occurrence of d and the next one (or the end of s)
SplitSecond(s, d) ==
  LET i == IndexOf(s, d, 1)
      rest == SubSeq(s, i + Len(d), Len(s))
      j == IndexOf(rest, d, 1)
  IN  IF j = 0 THEN rest ELSE SubSeq(rest, 1, j - 1)

\* Array.prototype.join on a sequence of strings
RECURSIVE Join(_, _)
Join(parts, sep) ==
  IF Len(parts) = 0 THEN ""
  ELSE IF Len(parts) = 1 THEN parts[1]
  ELSE parts[1] \o sep \o Join(Tail(parts), sep)

\* all sequences over S of length 0..n
SeqsUpTo(S, n) == UNION {[1..k -> S] : k \in 0..n}

\* -------------------------------------------------------------- JSON values
\* A decoded JSON value is null or an object.  An object is described by its
\* `recommendations` member, its `outreachEmail` member and its other
\* (profile) members; the remaining Recommendation members (category, fee,
\* duration, location, startDate, url) are passed through untouched by the
\* handlers and are left out.
Rec(title, why) == [programmeTitle |-> title, reasoning |-> why]
RecGood == Rec("MBA", "fit")
RecPool == {RecGood, Rec("", "fit"), Rec("MBA", "")}

NoRecs == [k |-> "absent", items |-> <<>>]
\* arrays of up to MaxRecs recommendations of which at most one is defective
RecArrays ==
  {a \in SeqsUpTo(RecPool, MaxRecs) : Cardinality({i \in DOMAIN a : a[i] # RecGood}) <= 1}
RecsValues ==
  {NoRecs, [k |-> "null", items |-> <<>>], [k |-> "string", items |-> <<>>]}
    \cup {[k |-> "array", items |-> a] : a \in RecArrays}

NoEmail == [k |-> "absent", s |-> ""]
EmailPlain == [k |-> "string", s |-> "Hello"]
\* an outreach message that quotes a fenced snippet
EmailFenced == [k |-> "string", s |-> "Hi " \o Fence \o "x" \o Fence]

\* profileTool.parameters.required
MandatoryFields ==
  {"name", "jobTitle", "industry", "yearsExperience", "careerGoals", "areasOfInterest"}
ProfileKeyOrder ==
  <<"name", "email", "jobTitle", "industry", "yearsExperience", "careerGoals", "areasOfInterest">>
NoFields == [k \in {} |-> ""]
FullProfile == [k \in MandatoryFields |-> "v"]
ProfileFieldMaps ==
  { NoFields,
    FullProfile,
    [k \in MandatoryFields \cup {"email"} |-> "v"],
    [k \in MandatoryFields \ {"name"} |-> "v"],
    [k \in MandatoryFields |-> IF k = "careerGoals" THEN "" ELSE "v"] }

JNull == [kind |-> "null", recs |-> NoRecs, email |-> NoEmail, fields |-> NoFields]
Obj(r, e, f) == [kind |-> "object", recs |-> r, email |-> e, fields |-> f]
EmptyObject == Obj(NoRecs, NoEmail, NoFields)

GoodArrays == {[i \in 1..n |-> RecGood] : n \in 0..MaxRecs}
RecSetValues ==
  {EmptyObject}
    \cup {Obj(r, EmailPlain, NoFields) : r \in RecsValues}
    \cup {Obj([k |-> "array", items |-> a], EmailFenced, NoFields) : a \in GoodArrays}
ProfileValues == {Obj(NoRecs, NoEmail, f) : f \in ProfileFieldMaps}
JsonValues == {JNull} \cup RecSetValues \cup ProfileValues

\* --------------------------------------------------- JSON.stringify / parse
Quote(s) == "\"" \o s \o "\""
StringifyRec(r) ==
  "{" \o Quote("programmeTitle") \o ":" \o Quote(r.programmeTitle) \o ","
      \o Quote("reasoning") \o ":" \o Quote(r.reasoning) \o "}"

RECURSIVE StringifyItems(_)
StringifyItems(a) ==
  IF Len(a) = 0 THEN <<>> ELSE <<StringifyRec(a[1])>> \o StringifyItems(Tail(a))

MemberTexts(v) ==
  LET recsPart ==
        CASE v.recs.k = "absent" -> <<>>
          [] v.recs.k = "null"   -> <<Quote("recommendations") \o ":null">>
          [] v.recs.k = "string" -> <<Quote("recommendations") \o ":" \o Quote("none")>>
          [] v.recs.k = "array"  ->
               <<Quote("recommendations") \o ":[" \o Join(StringifyItems(v.recs.items), ",") \o "]">>
      emailPart ==
        IF v.email.k = "absent" THEN <<>>
        ELSE <<Quote("outreachEmail") \o ":" \o Quote(v.email.s)>>
      fieldPart ==
        LET F[i \in 0..Len(ProfileKeyOrder)] ==
              IF i = 0 THEN <<>>
              ELSE IF ProfileKeyOrder[i] \in DOMAIN v.fields
                   THEN Append(F[i - 1],
                               Quote(ProfileKeyOrder[i]) \o ":" \o Quote(v.fields[ProfileKeyOrder[i]]))
                   ELSE F[i - 1]
        IN  F[Len(ProfileKeyOrder)]
  IN  recsPart \o emailPart \o fieldPart

\* JSON.stringify
Stringify(v) ==
  IF v.kind = "null" THEN "null" ELSE "{" \o Join(MemberTexts(v), ",") \o "}"

JsonTexts == {Stringify(v) : v \in JsonValues}
ParseTable == [s \in JsonTexts |-> CHOOSE v \in JsonValues : Stringify(v) = s]

\* JSON.parse: leading and trailing white space is skipped; a text that is not
\* the serialisation of a value throws (ok = FALSE)
JSONParse(s) ==
  LET t == Trim(s)
  IN  IF t \in JsonTexts THEN [ok |-> TRUE, v |-> ParseTable[t]]
      ELSE [ok |-> FALSE, v |-> JNull]

\* ------------------------------------------------------- catalogue (store)
Row(t, c, d, u, f, fm, l, sd, ta, w) ==
  [title |-> t, category |-> c, description |-> d, url |-> u, fee |-> f, format |-> fm,
   location |-> l, start_date |-> sd, target_audience |-> ta, why_this_programme |-> w]
RowFull == Row("MBA", "General", "Lead", "https://v.be/mba", "9k", "Online", "Gent",
               "May", "Managers", "Growth\nNetwork")
\* a row whose optional columns are null or empty
RowSparse == Row("Finance", "", "", "https://v.be/fin", "", "", "", "", "", "")
RowPool == {RowFull, RowSparse}
Tables == SeqsUpTo(RowPool, MaxRows)

\* faulty variant: every labelled line is written, empty or not
RenderRowAllFields(p) ==
  Join(<<"PROGRAMME: " \o p.title, "Category: " \o p.category,
         "Description: " \o p.description, "Fee: " \o p.fee, "Format: " \o p.format,
         "Location: " \o p.location, "Start date: " \o p.start_date,
         "Target audience: " \o p.target_audience,
         "Why this programme: " \o p.why_this_programme, "URL: " \o p.url>>,
       "\n")

\* programmes.map((p) => { const parts = [...]; ...; return parts.join("\n") })
RenderRow(p) ==
  LET opt(label, val) == IF val # "" THEN <<label \o ": " \o val>> ELSE <<>>
  IN  Join(<<"PROGRAMME: " \o p.title>>
             \o opt("Category", p.category)
             \o opt("Description", p.description)
             \o opt("Fee", p.fee)
             \o opt("Format", p.format)
             \o opt("Location", p.location)
             \o opt("Start date", p.start_date)
             \o opt("Target audience", p.target_audience)
             \o opt("Why this programme", p.why_this_programme)
             \o opt("URL", p.url),
           "\n")

BlockSeparator == "\n\n---\n\n"
\* faulty variant: the rows are rendered last first
RenderCatalogueReversed(rows) ==
  Join([i \in 1..Len(rows) |-> RenderRow(rows[Len(rows) + 1 - i])], BlockSeparator)

\* programmes.map(...).join("\n\n---\n\n")
RenderCatalogue(rows) == Join([i \in 1..Len(rows) |-> RenderRow(rows[i])], BlockSeparator)

\* ---------------------------------------------------------------- requests
\* values a profile member can hold
PStr(t) == [type |-> "string", s |-> t, items |-> <<>>]
PNullValue == [type |-> "null", s |-> "", items |-> <<>>]
PList(a) == [type |-> "array", s |-> "", items |-> a]
\* JavaScript truthiness of a member value
TruthyValue(v) == (v.type = "string" /\ v.s # "") \/ v.type = "array"
\* `${v}`
ValueText(v) ==
  CASE v.type = "string" -> v.s
    [] v.type = "null"   -> "null"
    [] v.type = "array"  -> Join(v.items, ",")

Entry(k, v) == [k |-> k, v |-> v]
ProfileUndefined == [type |-> "undefined", entries |-> <<>>]
ProfileNull == [type |-> "null", entries |-> <<>>]
ProfileEmptyString == [type |-> "string", entries |-> <<>>]
ProfileObject(es) == [type |-> "object", entries |-> es]
ProfileInputs ==
  { ProfileUndefined, ProfileNull, ProfileEmptyString,
    ProfileObject(<<>>),
    ProfileObject(<<Entry("jobTitle", PStr("Manager")), Entry("industry", PStr("FMCG"))>>),
    ProfileObject(<<Entry("jobTitle", PStr("CFO")), Entry("email", PStr("")),
                    Entry("education", PNullValue), Entry("skills", PList(<<>>))>>) }

\* an optional string of the request body
Undefined == [defined |-> FALSE, s |-> ""]
Str(t) == [defined |-> TRUE, s |-> t]
TruthyStr(x) == x.defined /\ x.s # ""
InlineCatalogue == "PROGRAMME: Inline course"

Request(ep, rev, m, ok, prof, cat, file, name) ==
  [endpoint |-> ep, revision |-> rev, method |-> m, jsonOk |-> ok, profile |-> prof,
   catalogue |-> cat, file_base64 |-> file, file_name |-> name]

RecommendRequests ==
  { Request("recommend", "current", "OPTIONS", TRUE, ProfileUndefined, Undefined, Undefined, Undefined),
    Request("recommend", "current", "POST", FALSE, ProfileUndefined, Undefined, Undefined, Undefined) }
  \cup { Request("recommend", "current", "POST", TRUE, pr, c, Undefined, Undefined) :
           pr \in ProfileInputs, c \in {Undefined, Str(""), Str(InlineCatalogue)} }
  \cup { Request("recommend", "dbOnly", "POST", TRUE, pr, Undefined, Undefined, Undefined) :
           pr \in ProfileInputs }

ParseCvRequests ==
  { Request("parse-cv", "current", "OPTIONS", TRUE, ProfileUndefined, Undefined, Undefined, Undefined),
    Request("parse-cv", "current", "POST", FALSE, ProfileUndefined, Undefined, Undefined, Undefined) }
  \cup { Request("parse-cv", "current", "POST", TRUE, ProfileUndefined, Undefined, f, n) :
           f \in {Undefined, Str(""), Str("QUJD")}, n \in {Undefined, Str("cv.pdf"), Str("cv.docx")} }

NoRequest ==
  Request("none", "current", "POST", TRUE, ProfileUndefined, Undefined, Undefined, Undefined)

\* ------------------------------------------------------- upstream replies
\* message.tool_calls[0]: absent, a call carrying an arguments text, or an
\* entry without a `function` member
NoToolCall == [kind |-> "none", arguments |-> ""]
ToolCall(args) == [kind |-> "call", arguments |-> args]
BadToolCall == [kind |-> "noFunction", arguments |-> ""]

Message(tc, content) == [toolCall |-> tc, content |-> content]
NoMessage == Message(NoToolCall, Undefined)

\* the outcome of fetch(): a rejection, or a response with a status and a body
\* that is not JSON, has no choices[0].message, or carries a message
Reply(kind, status, body, msg) == [kind |-> kind, status |-> status, body |-> body, message |-> msg]
NoReply == Reply("none", 0, "none", NoMessage)
FailureReplies ==
  {Reply("rejected", 0, "none", NoMessage)}
    \cup {Reply("response", st, "text", NoMessage) : st \in {402, 429, 500, 503}}
    \cup {Reply("response", 200, b, NoMessage) : b \in {"notJson", "noChoices"}}
MessageReply(m) == Reply("response", 200, "message", m)

\* the ways a model writes JSON text J into message.content
Fenced(J, tag) == Fence \o tag \o "\n" \o J \o "\n" \o Fence
ContentForms(J) == {J, Fenced(J, "json"), Fenced(J, "")}

ValidRecs == [k |-> "array", items |-> <<RecGood, RecGood, RecGood>>]
ValidRecSets == {Obj(ValidRecs, e, NoFields) : e \in {EmailPlain, EmailFenced}}
ValidRecSet == Obj(ValidRecs, EmailPlain, NoFields)
BrokenJson == "{" \o Quote("recommendations") \o ":["

RecommendArgs ==
  {Stringify(v) : v \in RecSetValues \cup {JNull, Obj(NoRecs, NoEmail, FullProfile)}}
    \cup {BrokenJson}
\* a function-result beside text content, and text content alone
SideContents ==
  {Undefined, Str("Sorry, I cannot help."), Str(" " \o Stringify(ValidRecSet) \o "\n"),
   Str(Fenced(Stringify(ValidRecSet), "json"))}
RecommendReplies ==
  FailureReplies
    \cup {MessageReply(Message(ToolCall(a), Undefined)) : a \in RecommendArgs}
    \cup {MessageReply(Message(tc, c)) :
            tc \in {ToolCall(BrokenJson), ToolCall("{}"), ToolCall(Stringify(ValidRecSet)),
                    BadToolCall},
            c \in SideContents}
    \cup {MessageReply(Message(NoToolCall, c)) :
            c \in SideContents \cup {Str("")}
                    \cup {Str(t) : t \in UNION {ContentForms(a) : a \in RecommendArgs}}}

ParseCvArgs ==
  {Stringify(v) : v \in ProfileValues \cup {JNull, ValidRecSet}} \cup {BrokenJson}
ParseCvReplies ==
  FailureReplies
    \cup {MessageReply(Message(tc, c)) :
            tc \in {ToolCall(a) : a \in ParseCvArgs} \cup {BadToolCall, NoToolCall},
            c \in {Undefined, Str("")}
                    \cup {Str(t) : t \in ContentForms(Stringify(Obj(NoRecs, NoEmail, FullProfile)))}}

\* ---------------------------------------------------------------- responses
NoBody == [kind |-> "none", v |-> JNull]
Response(status, error, body) == [status |-> status, error |-> error, body |-> body]
NoResponse == Response(0, "", NoBody)
\* new Response(JSON.stringify({ error }), { status })
ErrorResponse(status, msg) == Response(status, msg, NoBody)
\* new Response(null, { headers: corsHeaders })
PreflightResponse == Response(200, "", [kind |-> "empty", v |-> JNull])
\* new Response(JSON.stringify(result)): the body is the document `result`
ResultResponse(v) == Response(200, "", [kind |-> "result", v |-> v])
\* new Response(JSON.stringify({ profile }))
ProfileResponse(v) == Response(200, "", [kind |-> "profile", v |-> v])

\* messages of the exceptions the runtime raises
SyntaxErrorMessage == "Unexpected token in JSON"
TypeErrorMessage == "Cannot read properties of undefined"
FetchErrorMessage == "error sending request"

NoProfileMessage == "No profile provided"
NoFileMessage == "No file provided"
NoCatalogueMessage ==
  "No programme data available. Please seed the database or provide catalogue."
LoadFailedMessage == "Failed to load programme catalogue"
EmptyCatalogueMessage == "Programme catalogue is empty. Please seed the database first."
NoKeyMessage == "LOVABLE_API_KEY not configured"
RateLimitMessage == "Rate limit exceeded. Please try again in a moment."
QuotaMessage == "AI usage limit reached. Please add credits."
NoRecommendationsMessage == "No recommendations returned from AI"
NoStructuredProfileMessage == "No structured profile returned from AI"
GatewayErrorMessage(status) == "AI gateway error: " \o ToString(status)

\* ------------------------------------------------- recommend: pure steps
\* faulty variant: the exception leaves the handler, which returns nothing
CaughtRethrown(msg) == Response(0, msg, NoBody)

\* an exception caught by the handler's catch block: e.message, status 500
Caught(msg) == ErrorResponse(500, msg)

\* faulty variant: only an absent profile is refused
ProfileProvidedLoose(profile) == profile.type # "undefined"

\* if (!profile)
ProfileProvided(profile) == profile.type = "object"

\* the result of the catalogue read: { data: programmes, error: dbError }
DbResult(err, rows) == [read |-> TRUE, error |-> err, data |-> rows]
NoDbResult == [read |-> FALSE, error |-> FALSE, data |-> <<>>]

Resolved(text) == [ok |-> TRUE, catalogue |-> text, error |-> ""]
Unresolved(msg) == [ok |-> FALSE, catalogue |-> "", error |-> msg]

\* faulty variant: goes on with an empty catalogue instead of throwing
ResolveCatalogueLenient(db, fallbackCatalogue) ==
  IF ~db.error /\ Len(db.data) > 0 THEN Resolved(RenderCatalogue(db.data))
  ELSE IF TruthyStr(fallbackCatalogue) THEN Resolved(fallbackCatalogue.s)
  ELSE Resolved("")

\* faulty variant: the inline catalogue of the request wins over the store
ResolveCatalogueInlineFirst(db, fallbackCatalogue) ==
  IF TruthyStr(fallbackCatalogue) THEN Resolved(fallbackCatalogue.s)
  ELSE IF ~db.error /\ Len(db.data) > 0 THEN Resolved(RenderCatalogue(db.data))
  ELSE Unresolved(NoCatalogueMessage)

\* catalogue resolution of the current revision: store rows first, then the
\* inline catalogue of the request, else throw
ResolveCatalogue(db, fallbackCatalogue) ==
  IF ~db.error /\ Len(db.data) > 0 THEN Resolved(RenderCatalogue(db.data))
  ELSE IF TruthyStr(fallbackCatalogue) THEN Resolved(fallbackCatalogue.s)
  ELSE Unresolved(NoCatalogueMessage)

\* catalogue resolution of the store-only revision
ResolveCatalogueDbOnly(db) ==
  IF db.error THEN Unresolved(LoadFailedMessage)
  ELSE IF Len(db.data) = 0 THEN Unresolved(EmptyCatalogueMessage)
  ELSE Resolved(RenderCatalogue(db.data))

\* Object.entries(profile).filter(([_, v]) => v).map(([k, v]) => `${k}: ${v}`).join("\n")
RECURSIVE SummaryLines(_)
SummaryLines(es) ==
  IF Len(es) = 0 THEN <<>>
  ELSE (IF TruthyValue(es[1].v) THEN <<es[1].k \o ": " \o ValueText(es[1].v)>> ELSE <<>>)
         \o SummaryLines(Tail(es))
ProfileSummary(profile) == Join(SummaryLines(profile.entries), "\n")

\* the two turns of the generation request (persona text abbreviated)
SystemPrompt(catalogue) == "PROGRAMME CATALOGUE:\n" \o catalogue
UserPrompt(profileSummary) == "Profile:\n\n" \o profileSummary \o "\n\nRecommend the top 3."
ModelRequest(system, user) == [system |-> system, user |-> user]
NoModelRequest == ModelRequest("", "")

\* faulty variant: throttling is not told apart from quota exhaustion
RecommendGatewayErrorFlat(status) ==
  CASE status \in {429, 402} -> ErrorResponse(status, QuotaMessage)
    [] OTHER                  -> Caught(GatewayErrorMessage(status))

\* if (!response.ok) { 429 ... 402 ... throw new Error(`AI gateway error: ${status}`) }
RecommendGatewayError(status) ==
  CASE status = 429 -> ErrorResponse(429, RateLimitMessage)
    [] status = 402 -> ErrorResponse(402, QuotaMessage)
    [] OTHER        -> Caught(GatewayErrorMessage(status))

\* if (content.startsWith(fence)) { content = content.split(fence)[1];
\*   if (content.startsWith("json")) content = content.slice(4); }
StripFence(content) ==
  IF StartsWith(content, Fence)
  THEN LET inner == SplitSecond(content, Fence)
       IN  IF StartsWith(inner, "json") THEN SubSeq(inner, 5, Len(inner)) ELSE inner
  ELSE content

Decoded(v, secondary) == [ok |-> TRUE, result |-> v, error |-> "", secondary |-> secondary]
Undecoded(msg, secondary) == [ok |-> FALSE, result |-> JNull, error |-> msg, secondary |-> secondary]

\* faulty variant: retries on the text content when the arguments do not parse
DecodeResultRetrying(message) ==
  LET viaContent ==
        IF TruthyStr(message.content)
        THEN LET p == JSONParse(StripFence(Trim(message.content.s)))
             IN  IF p.ok THEN Decoded(p.v, TRUE) ELSE Undecoded(NoRecommendationsMessage, TRUE)
        ELSE Undecoded(NoRecommendationsMessage, FALSE)
  IN  CASE message.toolCall.kind = "call" ->
             LET p == JSONParse(message.toolCall.arguments)
             IN  IF p.ok THEN Decoded(p.v, FALSE) ELSE viaContent
        [] message.toolCall.kind = "noFunction" -> Undecoded(TypeErrorMessage, FALSE)
        [] message.toolCall.kind = "none" -> viaContent

\* two-path decoding; `secondary` records that JSON.parse(content) was reached
DecodeResult(message) ==
  CASE message.toolCall.kind = "call" ->
         LET p == JSONParse(message.toolCall.arguments)
         IN  IF p.ok THEN Decoded(p.v, FALSE) ELSE Undecoded(SyntaxErrorMessage, FALSE)
    [] message.toolCall.kind = "noFunction" -> Undecoded(TypeErrorMessage, FALSE)
    [] message.toolCall.kind = "none" ->
         IF TruthyStr(message.content)
         THEN LET p == JSONParse(StripFence(Trim(message.content.s)))
              IN  IF p.ok THEN Decoded(p.v, TRUE) ELSE Undecoded(NoRecommendationsMessage, TRUE)
         ELSE Undecoded(NoRecommendationsMessage, FALSE)

\* faulty variant: the decoded result is returned unvalidated
ValidateResultAbsent(result) ==
  IF result.kind = "null" THEN Caught(TypeErrorMessage) ELSE ResultResponse(result)

\* if (!result.recommendations || !Array.isArray(result.recommendations)) throw
\* (reading a member of null raises a TypeError)
ValidateResult(result) ==
  CASE result.kind = "null"     -> Caught(TypeErrorMessage)
    [] result.recs.k = "array"  -> ResultResponse(result)
    [] OTHER                    -> Caught(NoRecommendationsMessage)

\* response.ok
Ok(status) == status \in 200..299

\* everything the handler does once fetch() has settled
RecommendRespond(reply) ==
  CASE reply.kind = "rejected" -> [response |-> Caught(FetchErrorMessage), secondary |-> FALSE]
    [] ~Ok(reply.status) -> [response |-> RecommendGatewayError(reply.status), secondary |-> FALSE]
    [] reply.body = "notJson"  -> [response |-> Caught(SyntaxErrorMessage), secondary |-> FALSE]
    [] OTHER ->
         LET d == DecodeResult(reply.message)
         IN  [response |-> IF d.ok THEN ValidateResult(d.result) ELSE Caught(d.error),
              secondary |-> d.secondary]

\* -------------------------------------------------- parse-cv: pure steps
\* if (!file_base64)
FileProvided(file_base64) == TruthyStr(file_base64)

EndsWith(s, p) == Len(s) >= Len(p) /\ SubSeq(s, Len(s) - Len(p) + 1, Len(s)) = p
\* (file_name || "").toLowerCase().endsWith(".pdf"); the names drawn are lower case
MimeType(file_name) ==
  IF EndsWith(IF TruthyStr(file_name) THEN file_name.s ELSE "", ".pdf")
  THEN "application/pdf" ELSE "application/octet-stream"
DataUrl(file_base64, file_name) == "data:" \o MimeType(file_name) \o ";base64," \o file_base64.s

\* faulty variant: the upstream status is passed through to the caller
ParseCvGatewayErrorPassThrough(status) ==
  CASE status = 429 -> ErrorResponse(429, RateLimitMessage)
    [] status = 402 -> ErrorResponse(402, QuotaMessage)
    [] OTHER        -> ErrorResponse(status, GatewayErrorMessage(status))

\* if (!response.ok) { 429 ... 402 ... throw new Error("AI gateway error: ${status}") }
ParseCvGatewayError(status) ==
  CASE status = 429 -> ErrorResponse(429, RateLimitMessage)
    [] status = 402 -> ErrorResponse(402, QuotaMessage)
    [] OTHER        -> Caught(GatewayErrorMessage(status))

\* faulty variant: recovers the profile from the text content
DecodeProfileWithFallback(message) ==
  CASE message.toolCall.kind = "none" ->
         IF TruthyStr(message.content)
         THEN LET p == JSONParse(StripFence(Trim(message.content.s)))
              IN  IF p.ok THEN Decoded(p.v, TRUE)
                  ELSE Undecoded(NoStructuredProfileMessage, TRUE)
         ELSE Undecoded(NoStructuredProfileMessage, FALSE)
    [] message.toolCall.kind = "noFunction" -> Undecoded(TypeErrorMessage, FALSE)
    [] message.toolCall.kind = "call" ->
         LET p == JSONParse(message.toolCall.arguments)
         IN  IF p.ok THEN Decoded(p.v, FALSE) ELSE Undecoded(SyntaxErrorMessage, FALSE)

\* single-path decoding: tool_calls[0] or failure; message.content is never read
DecodeProfile(message) ==
  CASE message.toolCall.kind = "none" -> Undecoded(NoStructuredProfileMessage, FALSE)
    [] message.toolCall.kind = "noFunction" -> Undecoded(TypeErrorMessage, FALSE)
    [] message.toolCall.kind = "call" ->
         LET p == JSONParse(message.toolCall.arguments)
         IN  IF p.ok THEN Decoded(p.v, FALSE) ELSE Undecoded(SyntaxErrorMessage, FALSE)

ParseCvRespond(reply) ==
  CASE reply.kind = "rejected" -> [response |-> Caught(FetchErrorMessage), secondary |-> FALSE]
    [] ~Ok(reply.status) -> [response |-> ParseCvGatewayError(reply.status), secondary |-> FALSE]
    [] reply.body = "notJson"  -> [response |-> Caught(SyntaxErrorMessage), secondary |-> FALSE]
    [] OTHER ->
         LET d == DecodeProfile(reply.message)
         IN  [response |-> IF d.ok THEN ProfileResponse(d.result) ELSE Caught(d.error),
              secondary |-> d.secondary]

\* an invocation slot of the concurrent server, before it takes a request
Slots == {1, 2}
IdleInvocation ==
  [pc |-> "idle", req |-> NoRequest, dbResult |-> NoDbResult, catalogue |-> "",
   modelRequest |-> NoModelRequest, reply |-> NoReply, dbReads |-> 0,
   response |-> NoResponse]

\* ------------------------------------------------------------ admin-auth
MaxSubmissions == 2

\* a row of the submissions table, as far as the handler looks at it
Submission(t) == [created_at |-> t]
\* tables of submissions, in the order the rows were written
SubmissionTables ==
  {t \in SeqsUpTo({Submission(n) : n \in 1..MaxSubmissions}, MaxSubmissions) :
     \A i, j \in 1..Len(t) : t[i] = t[j] => i = j}

\* .order("created_at", { ascending: false })
RECURSIVE OrderDesc(_)
OrderDesc(rows) ==
  IF rows = <<>> THEN <<>>
  ELSE LET k == CHOOSE i \in 1..Len(rows) :
                  \A j \in 1..Len(rows) : rows[j].created_at <= rows[i].created_at
           rest == [j \in 1..(Len(rows) - 1) |-> IF j < k THEN rows[j] ELSE rows[j + 1]]
       IN  <<rows[k]>> \o OrderDesc(rest)

\* the response of admin-auth: a status and either { error } or { submissions }
AdminResponse(status, error, body, rows) ==
  [status |-> status, error |-> error, body |-> body, submissions |-> rows]
NoAdminResponse == AdminResponse(0, "", "none", <<>>)
AdminPreflight == AdminResponse(200, "", "empty", <<>>)
AdminError(status, msg) == AdminResponse(status, msg, "error", <<>>)
AdminGranted(rows) == AdminResponse(200, "", "submissions", rows)

NotConfiguredMessage == "ADMIN_PASSWORD not configured"
InvalidPasswordMessage == "Invalid password"
AdminFailedMessage == "Admin auth failed"
ReadFailedMessage == "permission denied for table submissions"

\* a request to admin-auth: its method, whether its body decodes to an object,
\* and the password member of that object
AdminRequest(m, ok, password) == [method |-> m, jsonOk |-> ok, password |-> password]
AdminRequests ==
  {AdminRequest("OPTIONS", TRUE, Undefined), AdminRequest("POST", FALSE, Undefined)}
    \cup {AdminRequest("POST", TRUE, pw) :
            pw \in {Undefined, Str(""), Str("s3cret"), Str("guess")}}
NoAdminRequest == AdminRequest("none", TRUE, Undefined)
AdminPasswords == {Undefined, Str(""), Str("s3cret")}

\* faulty variant: the handler does not test that the secret is set
ConfiguredUnchecked(adminPassword) == TRUE

\* if (!adminPassword) throw new Error("ADMIN_PASSWORD not configured")
Configured(adminPassword) == TruthyStr(adminPassword)

\* if (password !== adminPassword)
PasswordMatches(password, adminPassword) == password = adminPassword

\* the admin-auth invocation before it takes a request
IdleAdmin == [pc |-> "idle", req |-> NoAdminRequest, reads |-> 0, response |-> NoAdminResponse]

\* a seed-programmes invocation before it takes a request
SeedResponse(status, error, inserted, total) ==
  [status |-> status, error |-> error, inserted |-> inserted, total |-> total]
NoSeedResponse == SeedResponse(0, "", 0, 0)
NoProgrammesMember == [kind |-> "absent", list |-> <<>>]
SeedRequest(m, ok, list, admin_password) ==
  [method |-> m, jsonOk |-> ok, programmes |-> list, admin_password |-> admin_password]
NoSeedRequest == SeedRequest("none", TRUE, NoProgrammesMember, Undefined)
\* (deletes and inserts count the statements it has sent; found is the table as
\* its delete found it, kept for the statement of properties only)
IdleSeed ==
  [pc |-> "idle", req |-> NoSeedRequest, unique |-> <<>>, rows |-> <<>>, i |-> 0,
   inserted |-> 0, deletes |-> 0, inserts |-> 0, found |-> <<>>,
   response |-> NoSeedResponse]

\* ------------------------------------------------------------ backend-proxy
\* A value as JavaScript holds it after JSON decoding: a member that is missing
\* reads as undefined; objects and arrays whose content the proxy never
\* inspects are opaque.
JS(t, s, n) == [t |-> t, s |-> s, n |-> n]
JUndefined == JS("undefined", "", 0)
JString(s) == JS("string", s, 0)
JNumber(n) == JS("number", "", n)
JObject == JS("object", "", 0)
JArray == JS("array", "", 0)
\* ToBoolean
Truthy(v) ==
  CASE v.t = "string" -> v.s # ""
    [] v.t = "number" -> v.n # 0
    [] v.t \in {"object", "array"} -> TRUE
    [] OTHER -> FALSE
\* a || b
Or(a, b) == IF Truthy(a) THEN a ELSE b

\* the members of a recommendation the proxy reads, under both spellings
BackendRecKeys ==
  {"title", "programmeTitle", "category", "fee", "format", "duration", "location",
   "start_date", "startDate", "url", "reason", "reasoning"}
\* a recommendation as the backend sends it: an object, or null
BackendRec(m) == [kind |-> "object", m |-> m]
NullRec == [kind |-> "null", m |-> [k \in BackendRecKeys |-> JUndefined]]
\* the recommendation of the response, as the page reads it
ProxyRecKeys ==
  {"programmeTitle", "category", "fee", "duration", "location", "startDate", "url",
   "reasoning"}

\* the document of a backend reply
BackendDoc(kind, error, recs, email_draft, profile, top_categories) ==
  [kind |-> kind, error |-> error, recommendations |-> recs, email_draft |-> email_draft,
   profile |-> profile, top_categories |-> top_categories]
NoBackendRecs == [k |-> "undefined", items |-> <<>>]
NullDoc == BackendDoc("null", JUndefined, NoBackendRecs, JUndefined, JUndefined, JUndefined)
\* what fetch() to the backend settles with
BackendReply(outcome, status, isJson, doc) ==
  [outcome |-> outcome, status |-> status, isJson |-> isJson, doc |-> doc]
NoBackendReply == BackendReply("none", 0, FALSE, NullDoc)

\* the request the proxy sends on
BackendCall(url, fields) == [url |-> url, fields |-> fields]
NoBackendCall == BackendCall("", {})

ProxyRequest(m, ok, file_base64, decodable, file_name, career_goals, linkedin_text) ==
  [method |-> m, jsonOk |-> ok, file_base64 |-> file_base64, decodable |-> decodable,
   file_name |-> file_name, career_goals |-> career_goals, linkedin_text |-> linkedin_text]
NoProxyRequest == ProxyRequest("none", TRUE, Undefined, TRUE, Undefined, Undefined, Undefined)

\* a response of the proxy: `members` are the members of its JSON body
ProxyResponse(status, members, error, recs, outreachEmail, profile, topCategories) ==
  [status |-> status, members |-> members, error |-> error, recommendations |-> recs,
   outreachEmail |-> outreachEmail, profile |-> profile, topCategories |-> topCategories]
NoProxyResponse == ProxyResponse(0, {}, JUndefined, <<>>, JUndefined, JUndefined, JUndefined)
\* new Response(null, { headers: corsHeaders })
ProxyPreflight == ProxyResponse(200, {}, JUndefined, <<>>, JUndefined, JUndefined, JUndefined)
\* new Response(JSON.stringify({ error }), { status })
ProxyError(status, error) ==
  ProxyResponse(status, {"error"}, error, <<>>, JUndefined, JUndefined, JUndefined)

\* a backend-proxy invocation before it takes a request
IdleProxy ==
  [pc |-> "idle", RAILWAY_BACKEND_URL |-> Undefined, req |-> NoProxyRequest,
   call |-> NoBackendCall, reply |-> NoBackendReply, response |-> NoProxyResponse]

\* ------------------------------------------------------------- Index page
\* what supabase.functions.invoke resolves with: the decoded body of a 2xx
\* response as data, or no data and an error
InvokeResult(hasData, data, error) == [hasData |-> hasData, data |-> data, error |-> error]
NoInvokeResult == InvokeResult(FALSE, NoProxyResponse, "")
Toast(title, variant) == [title |-> title, variant |-> variant]
\* the page before the visitor submits (saves counts the save-submission calls)
IdlePage ==
  [pc |-> "idle", activeTab |-> "form", body |-> NoProxyRequest, loading |-> FALSE,
   toasts |-> <<>>, saves |-> 0, navigated |-> FALSE, result |-> NoInvokeResult]

\* ------------------------------------------------------ architecture page
\* pipelineNodes: the duration of each node, in order
Durations == <<800, 1200, 2000, 1500, 1000, 2500, 500>>
Nodes == DOMAIN Durations
\* one call of runPipeline: where it stands (node and s are animateNode's
\* index and loop counter, elapsed is elapsedRef.value)
PipeRun(pc_, node, s, elapsed) == [pc |-> pc_, node |-> node, s |-> s, elapsed |-> elapsed]
NoPipeRun == PipeRun("idle", 0, 0, 0)
\* the page before any click; runs are the calls of runPipeline in flight
IdlePipe ==
  [status |-> [n \in Nodes |-> "idle"], running |-> FALSE, progress |-> 0,
   pipelineComplete |-> FALSE, isLive |-> FALSE, backendStatus |-> "unknown",
   toasts |-> 0, runs |-> [k \in Slots |-> NoPipeRun]]

\* -------------------------------------------------------------------- state
VARIABLES
  programmes,       \* rows of the programmes table (the catalogue store)
  LOVABLE_API_KEY,  \* whether the gateway key is configured in the environment
  pc,               \* where the invocation being served stands
  req,              \* its request
  dbResult,         \* what its catalogue read returned
  catalogue,        \* its resolved catalogue text
  modelRequest,     \* the generation request it sent
  reply,            \* what fetch() settled with
  dbReads,          \* catalogue reads it issued
  modelCalls,       \* model calls it issued
  secondaryDecode,  \* whether it reached JSON.parse(content)
  response,         \* the response it returned
  inv,              \* two recommend invocations served concurrently, one per slot
  ADMIN_PASSWORD,   \* the admin secret of the environment
  submissions,      \* rows of the submissions table
  adm,              \* the admin-auth invocation being served
  seed,             \* two seed-programmes invocations, one per slot
  prx,              \* the backend-proxy invocation being served
  page,             \* the Index page: its submit flow
  pipe              \* the architecture page: its pipeline animation

vars ==
  <<programmes, LOVABLE_API_KEY, pc, req, dbResult, catalogue, modelRequest, reply,
    dbReads, modelCalls, secondaryDecode, response, inv, ADMIN_PASSWORD, submissions, adm,
    seed, prx, page, pipe>>

world == <<programmes, LOVABLE_API_KEY>>

\* the front end and the proxy at rest
FrontIdle == prx = IdleProxy /\ page = IdlePage /\ pipe = IdlePipe

\* what the recommend and parse-cv handlers never touch
front == <<prx, page, pipe>>
rest == <<seed, front>>
elsewhere == <<inv, ADMIN_PASSWORD, submissions, adm, rest>>

Init ==
  /\ programmes \in Tables
  /\ LOVABLE_API_KEY \in BOOLEAN
  /\ pc = "idle"
  /\ req = NoRequest
  /\ dbResult = NoDbResult
  /\ catalogue = ""
  /\ modelRequest = NoModelRequest
  /\ reply = NoReply
  /\ dbReads = 0
  /\ modelCalls = 0
  /\ secondaryDecode = FALSE
  /\ response = NoResponse
  /\ inv = [i \in Slots |-> IdleInvocation]
  /\ ADMIN_PASSWORD = Undefined
  /\ submissions = <<>>
  /\ adm = IdleAdmin
  /\ seed = [i \in Slots |-> IdleSeed]
  /\ FrontIdle

\* return a response: the invocation is over
Return(resp) ==
  /\ pc' = "done"
  /\ response' = resp

\* faulty variant: the model call is issued together with the catalogue read
RecommendStartParallel(r) ==
  /\ pc = "idle"
  /\ req' = r
  /\ IF r.method = "OPTIONS"
     THEN Return(PreflightResponse) /\ UNCHANGED <<dbReads, modelCalls>>
     ELSE IF ~r.jsonOk
     THEN Return(Caught(SyntaxErrorMessage)) /\ UNCHANGED <<dbReads, modelCalls>>
     ELSE IF ~ProfileProvided(r.profile)
     THEN Return(ErrorResponse(400, NoProfileMessage)) /\ UNCHANGED <<dbReads, modelCalls>>
     ELSE /\ pc' = "rec_db"
          /\ dbReads' = dbReads + 1
          /\ modelCalls' = modelCalls + 1
          /\ response' = response
  /\ UNCHANGED <<world, elsewhere, dbResult, catalogue, modelRequest, reply, secondaryDecode>>

\* recommend, from the request to the await of the catalogue read
RecommendStart(r) ==
  /\ pc = "idle"
  /\ req' = r
  /\ IF r.method = "OPTIONS" THEN Return(PreflightResponse) /\ dbReads' = dbReads
     ELSE IF ~r.jsonOk THEN Return(Caught(SyntaxErrorMessage)) /\ dbReads' = dbReads
     ELSE IF ~ProfileProvided(r.profile)
          THEN Return(ErrorResponse(400, NoProfileMessage)) /\ dbReads' = dbReads
     ELSE /\ pc' = "rec_db"
          /\ dbReads' = dbReads + 1
          /\ response' = response
  /\ UNCHANGED <<world, elsewhere, dbResult, catalogue, modelRequest, reply, modelCalls, secondaryDecode>>

\* recommend, from the result of the catalogue read to the await of fetch()
RecommendCatalogue(dbError) ==
  /\ pc = "rec_db"
  /\ dbResult' = DbResult(dbError, IF dbError THEN <<>> ELSE programmes)
  /\ LET db == dbResult'
         res == IF req.revision = "dbOnly" THEN ResolveCatalogueDbOnly(db)
                ELSE ResolveCatalogue(db, req.catalogue)
     IN  IF ~res.ok
         THEN Return(Caught(res.error)) /\ UNCHANGED <<catalogue, modelRequest, modelCalls>>
         ELSE IF ~LOVABLE_API_KEY
         THEN /\ Return(Caught(NoKeyMessage))
              /\ catalogue' = res.catalogue
              /\ UNCHANGED <<modelRequest, modelCalls>>
         ELSE /\ catalogue' = res.catalogue
              /\ modelRequest' = ModelRequest(SystemPrompt(res.catalogue),
                                              UserPrompt(ProfileSummary(req.profile)))
              /\ modelCalls' = modelCalls + 1
              /\ pc' = "rec_model"
              /\ response' = response
  /\ UNCHANGED <<world, elsewhere, req, reply, dbReads, secondaryDecode>>

\* faulty variant: a server error of the gateway is answered by calling it again
RecommendModelRetrying(rep) ==
  /\ pc = "rec_model"
  /\ reply' = rep
  /\ IF rep.kind = "response" /\ rep.status >= 500 /\ modelCalls < 2
     THEN /\ modelCalls' = modelCalls + 1
          /\ UNCHANGED <<pc, response, secondaryDecode>>
     ELSE LET out == RecommendRespond(rep)
          IN  /\ Return(out.response)
              /\ secondaryDecode' = out.secondary
              /\ modelCalls' = modelCalls
  /\ UNCHANGED <<world, elsewhere, req, dbResult, catalogue, modelRequest, dbReads>>

\* recommend, from the settled fetch() to the response
RecommendModel(rep) ==
  /\ pc = "rec_model"
  /\ reply' = rep
  /\ LET out == RecommendRespond(rep)
     IN  /\ Return(out.response)
         /\ secondaryDecode' = out.secondary
  /\ UNCHANGED <<world, elsewhere, req, dbResult, catalogue, modelRequest, dbReads, modelCalls>>

\* parse-cv, from the request to the await of fetch()
ParseCvStart(r) ==
  /\ pc = "idle"
  /\ req' = r
  /\ IF r.method = "OPTIONS"
     THEN Return(PreflightResponse) /\ UNCHANGED <<modelRequest, modelCalls>>
     ELSE IF ~r.jsonOk
     THEN Return(Caught(SyntaxErrorMessage)) /\ UNCHANGED <<modelRequest, modelCalls>>
     ELSE IF ~FileProvided(r.file_base64)
     THEN Return(ErrorResponse(400, NoFileMessage)) /\ UNCHANGED <<modelRequest, modelCalls>>
     ELSE IF ~LOVABLE_API_KEY
     THEN Return(Caught(NoKeyMessage)) /\ UNCHANGED <<modelRequest, modelCalls>>
     ELSE /\ modelRequest' = ModelRequest("You are a CV parser.",
                                          DataUrl(r.file_base64, r.file_name))
          /\ modelCalls' = modelCalls + 1
          /\ pc' = "pcv_model"
          /\ response' = response
  /\ UNCHANGED <<world, elsewhere, dbResult, catalogue, reply, dbReads, secondaryDecode>>

\* parse-cv, from the settled fetch() to the response
ParseCvModel(rep) ==
  /\ pc = "pcv_model"
  /\ reply' = rep
  /\ LET out == ParseCvRespond(rep)
     IN  /\ Return(out.response)
         /\ secondaryDecode' = out.secondary
  /\ UNCHANGED <<world, elsewhere, req, dbResult, catalogue, modelRequest, dbReads, modelCalls>>

\* the server is ready for the next request; nothing of the invocation is kept
NextRequest ==
  /\ pc = "done"
  /\ pc' = "idle"
  /\ req' = NoRequest
  /\ dbResult' = NoDbResult
  /\ catalogue' = ""
  /\ modelRequest' = NoModelRequest
  /\ reply' = NoReply
  /\ dbReads' = 0
  /\ modelCalls' = 0
  /\ secondaryDecode' = FALSE
  /\ response' = NoResponse
  /\ UNCHANGED <<world, elsewhere>>

Next ==
  \/ \E r \in RecommendRequests : RecommendStart(r)
  \/ \E e \in BOOLEAN : RecommendCatalogue(e)
  \/ \E rep \in RecommendReplies : RecommendModel(rep)
  \/ \E r \in ParseCvRequests : ParseCvStart(r)
  \/ \E rep \in ParseCvReplies : ParseCvModel(rep)
  \/ NextRequest

Spec == Init /\ [][Next]_vars

\* ------------------------------------------- two invocations in flight
\* The runtime serves each request by a call of the handler; the handler's
\* variables are locals of that call.  Two calls are in flight at once, each at
\* its own await; the store and the environment are the only things they share,
\* and the seeding function may rewrite the store at any moment.
single ==
  <<pc, req, dbResult, catalogue, modelRequest, reply, dbReads, modelCalls,
    secondaryDecode, response>>
adminVars == <<ADMIN_PASSWORD, submissions, adm>>

\* rows are seeded once per URL, so a table holds no row twice
ConcTables == {t \in Tables : \A i, j \in 1..Len(t) : t[i] = t[j] => i = j}

ConcRequests ==
  { Request("recommend", "current", "POST", TRUE, ProfileNull, Undefined, Undefined, Undefined),
    Request("recommend", "current", "POST", TRUE,
            ProfileObject(<<Entry("jobTitle", PStr("Manager"))>>), Undefined, Undefined, Undefined),
    Request("recommend", "current", "POST", TRUE,
            ProfileObject(<<Entry("jobTitle", PStr("CFO"))>>), Str(InlineCatalogue),
            Undefined, Undefined),
    Request("parse-cv", "current", "POST", TRUE, ProfileUndefined, Undefined,
            Str("QUJD"), Str("cv.pdf")) }

ConcReplies(ep) ==
  { Reply("response", 429, "text", NoMessage),
    MessageReply(Message(ToolCall(IF ep = "recommend" THEN Stringify(ValidRecSet)
                                  ELSE Stringify(Obj(NoRecs, NoEmail, FullProfile))),
                         Undefined)) }

InitConc ==
  /\ programmes \in ConcTables
  /\ LOVABLE_API_KEY \in BOOLEAN
  /\ inv = [i \in Slots |-> IdleInvocation]
  /\ pc = "idle"
  /\ req = NoRequest
  /\ dbResult = NoDbResult
  /\ catalogue = ""
  /\ modelRequest = NoModelRequest
  /\ reply = NoReply
  /\ dbReads = 0
  /\ modelCalls = 0
  /\ secondaryDecode = FALSE
  /\ response = NoResponse
  /\ ADMIN_PASSWORD = Undefined
  /\ submissions = <<>>
  /\ adm = IdleAdmin
  /\ seed = [i \in Slots |-> IdleSeed]
  /\ FrontIdle

\* faulty variant: the request body is kept in a module-level variable that
\* the latest invocation overwrites
RequestOfShared(i) == IF inv[3 - i].req # NoRequest THEN inv[3 - i].req ELSE inv[i].req

\* const { profile, catalogue: fallbackCatalogue } = await req.json(): locals of
\* the call that serves invocation i
RequestOf(i) == inv[i].req

\* faulty variant: the rows another invocation has read are reused
SelectProgrammesCached(i) ==
  IF inv[3 - i].dbResult.read /\ ~inv[3 - i].dbResult.error THEN inv[3 - i].dbResult.data
  ELSE programmes

\* the rows invocation i's select returns: the table as it is when the read runs
SelectProgrammes(i) == programmes

\* invocation i, from its request to its first await
ConcStart(i, r) ==
  /\ inv[i].pc = "idle"
  /\ inv' = [inv EXCEPT ![i] =
       IF r.method = "OPTIONS"
       THEN [@ EXCEPT !.req = r, !.pc = "done", !.response = PreflightResponse]
       ELSE IF ~r.jsonOk
       THEN [@ EXCEPT !.req = r, !.pc = "done", !.response = Caught(SyntaxErrorMessage)]
       ELSE IF r.endpoint = "recommend"
       THEN IF ~ProfileProvided(r.profile)
            THEN [@ EXCEPT !.req = r, !.pc = "done",
                           !.response = ErrorResponse(400, NoProfileMessage)]
            ELSE [@ EXCEPT !.req = r, !.pc = "rec_db", !.dbReads = @ + 1]
       ELSE IF ~FileProvided(r.file_base64)
       THEN [@ EXCEPT !.req = r, !.pc = "done", !.response = ErrorResponse(400, NoFileMessage)]
       ELSE IF ~LOVABLE_API_KEY
       THEN [@ EXCEPT !.req = r, !.pc = "done", !.response = Caught(NoKeyMessage)]
       ELSE [@ EXCEPT !.req = r, !.pc = "pcv_model",
                      !.modelRequest = ModelRequest("You are a CV parser.",
                                                    DataUrl(r.file_base64, r.file_name))]]
  /\ UNCHANGED <<world, single, adminVars, rest>>

\* invocation i of recommend, from the result of its catalogue read to the
\* await of fetch()
ConcCatalogue(i, dbError) ==
  /\ inv[i].pc = "rec_db"
  /\ LET r == RequestOf(i)
         db == DbResult(dbError, IF dbError THEN <<>> ELSE SelectProgrammes(i))
         res == IF r.revision = "dbOnly" THEN ResolveCatalogueDbOnly(db)
                ELSE ResolveCatalogue(db, r.catalogue)
     IN  inv' = [inv EXCEPT ![i] =
           IF ~res.ok
           THEN [@ EXCEPT !.dbResult = db, !.pc = "done", !.response = Caught(res.error)]
           ELSE IF ~LOVABLE_API_KEY
           THEN [@ EXCEPT !.dbResult = db, !.catalogue = res.catalogue, !.pc = "done",
                          !.response = Caught(NoKeyMessage)]
           ELSE [@ EXCEPT !.dbResult = db, !.catalogue = res.catalogue, !.pc = "rec_model",
                          !.modelRequest = ModelRequest(SystemPrompt(res.catalogue),
                                             UserPrompt(ProfileSummary(r.profile)))]]
  /\ UNCHANGED <<world, single, adminVars, rest>>

\* invocation i, from its settled fetch() to its response
ConcModel(i, rep) ==
  /\ inv[i].pc \in {"rec_model", "pcv_model"}
  /\ inv' = [inv EXCEPT ![i] =
       [@ EXCEPT !.reply = rep, !.pc = "done",
                 !.response = IF inv[i].pc = "rec_model" THEN RecommendRespond(rep).response
                              ELSE ParseCvRespond(rep).response]]
  /\ UNCHANGED <<world, single, adminVars, rest>>

\* seeding: every row of the table is deleted
StoreCleared ==
  /\ programmes # <<>>
  /\ programmes' = <<>>
  /\ UNCHANGED <<LOVABLE_API_KEY, inv, single, adminVars, rest>>

\* seeding: a row is inserted
StoreInserted(row) ==
  /\ Len(programmes) < MaxRows
  /\ \A k \in 1..Len(programmes) : programmes[k] # row
  /\ programmes' = Append(programmes, row)
  /\ UNCHANGED <<LOVABLE_API_KEY, inv, single, adminVars, rest>>

NextConc ==
  \/ \E i \in Slots, r \in ConcRequests : ConcStart(i, r)
  \/ \E i \in Slots, e \in BOOLEAN : ConcCatalogue(i, e)
  \/ \E i \in Slots : \E rep \in ConcReplies(inv[i].req.endpoint) : ConcModel(i, rep)
  \/ StoreCleared
  \/ \E row \in RowPool : StoreInserted(row)

SpecConc == InitConc /\ [][NextConc]_vars

\* ------------------------------------------------------ admin-auth: steps
\* admin-auth, from the request to the await of the submissions read
AdminStart(r) ==
  /\ adm.pc = "idle"
  /\ adm' =
       IF r.method = "OPTIONS"
       THEN [adm EXCEPT !.req = r, !.pc = "done", !.response = AdminPreflight]
       ELSE IF ~r.jsonOk
       THEN [adm EXCEPT !.req = r, !.pc = "done",
                        !.response = AdminError(500, SyntaxErrorMessage)]
       ELSE IF ~Configured(ADMIN_PASSWORD)
       THEN [adm EXCEPT !.req = r, !.pc = "done",
                        !.response = AdminError(500, NotConfiguredMessage)]
       ELSE IF ~PasswordMatches(r.password, ADMIN_PASSWORD)
       THEN [adm EXCEPT !.req = r, !.pc = "done",
                        !.response = AdminError(401, InvalidPasswordMessage)]
       ELSE [adm EXCEPT !.req = r, !.pc = "adm_db", !.reads = @ + 1]
  /\ UNCHANGED <<world, single, inv, ADMIN_PASSWORD, submissions, rest>>

\* admin-auth, from the result of the submissions read to the response; a
\* thrown value that is not an Error gives the fixed message
AdminRead(dbError, isError) ==
  /\ adm.pc = "adm_db"
  /\ adm' = [adm EXCEPT !.pc = "done",
                        !.response =
                          IF dbError
                          THEN AdminError(500, IF isError THEN ReadFailedMessage
                                               ELSE AdminFailedMessage)
                          ELSE AdminGranted(OrderDesc(submissions))]
  /\ UNCHANGED <<world, single, inv, ADMIN_PASSWORD, submissions, rest>>

\* the server is ready for the next admin request
AdminNext ==
  /\ adm.pc = "done"
  /\ adm' = IdleAdmin
  /\ UNCHANGED <<world, single, inv, ADMIN_PASSWORD, submissions, rest>>

InitAdmin ==
  /\ ADMIN_PASSWORD \in AdminPasswords
  /\ submissions \in SubmissionTables
  /\ adm = IdleAdmin
  /\ seed = [i \in Slots |-> IdleSeed]
  /\ FrontIdle
  /\ programmes = <<>>
  /\ LOVABLE_API_KEY = TRUE
  /\ inv = [i \in Slots |-> IdleInvocation]
  /\ pc = "idle"
  /\ req = NoRequest
  /\ dbResult = NoDbResult
  /\ catalogue = ""
  /\ modelRequest = NoModelRequest
  /\ reply = NoReply
  /\ dbReads = 0
  /\ modelCalls = 0
  /\ secondaryDecode = FALSE
  /\ response = NoResponse

NextAdmin ==
  \/ \E r \in AdminRequests : AdminStart(r)
  \/ \E e \in BOOLEAN, o \in BOOLEAN : AdminRead(e, o)
  \/ AdminNext

SpecAdmin == InitAdmin /\ [][NextAdmin]_vars

\* ------------------------------------------- seed-programmes: pure steps
BatchSize == 20

LowerLetters == "abcdefghijklmnopqrstuvwxyz"
UpperLetters == "ABCDEFGHIJKLMNOPQRSTUVWXYZ"
Digits == "0123456789"
MapChar(c, from, to) ==
  LET i == IndexOf(from, c, 1) IN IF i = 0 THEN c ELSE Ch(to, i)
LowerChar(c) == MapChar(c, UpperLetters, LowerLetters)
UpperChar(c) == MapChar(c, LowerLetters, UpperLetters)

\* String.prototype.toLowerCase
RECURSIVE ToLowerCase(_)
ToLowerCase(s) ==
  IF s = "" THEN "" ELSE LowerChar(Ch(s, 1)) \o ToLowerCase(SubSeq(s, 2, Len(s)))

\* String.prototype.split(d) for a non-empty d
RECURSIVE Split(_, _)
Split(s, d) ==
  LET i == IndexOf(s, d, 1)
  IN  IF i = 0 THEN <<s>>
      ELSE <<SubSeq(s, 1, i - 1)>> \o Split(SubSeq(s, i + Len(d), Len(s)), d)

\* w.charAt(0).toUpperCase() + w.slice(1)
Capitalise(w) == IF w = "" THEN "" ELSE UpperChar(Ch(w, 1)) \o SubSeq(w, 2, Len(w))

SmallWords == {"and", "in", "of", "the", "for", "to", "a"}
titleCase(str) ==
  LET ws == Split(ToLowerCase(str), " ")
      cased == [k \in 1..Len(ws) |-> IF ws[k] \in SmallWords THEN ws[k] ELSE Capitalise(ws[k])]
  IN  Capitalise(Join(cased, " "))

\* a character of the class [\w-]
IsSlugChar(c) ==
  \/ IndexOf(LowerLetters \o UpperLetters \o Digits \o "_-", c, 1) > 0

CategoryMap ==
  [slug \in {"accounting-finance", "general-management", "strategy"} |->
     CASE slug = "accounting-finance" -> "Accounting & Finance"
       [] slug = "general-management" -> "General Management"
       [] slug = "strategy"           -> "Strategy"]

\* slug.replace(/-/g, " ").replace(/\b\w/g, (c) => c.toUpperCase())
SlugTitle(slug) ==
  LET ws == Split(slug, "-")
  IN  Join([k \in 1..Len(ws) |-> Capitalise(ws[k])], " ")

\* url.match(/programmes-in-([\w-]+)\//): the first place where the prefix is
\* followed by a non-empty run of slug characters and a slash
extractCategory(url) ==
  LET prefix == "programmes-in-"
      starts == {i \in 1..(Len(url) - Len(prefix) + 1) :
                   /\ SubSeq(url, i, i + Len(prefix) - 1) = prefix
                   /\ \E j \in (i + Len(prefix) + 1)..Len(url) :
                        /\ Ch(url, j) = "/"
                        /\ \A k \in (i + Len(prefix))..(j - 1) : IsSlugChar(Ch(url, k))}
  IN  IF starts = {} THEN "Other"
      ELSE LET i == CHOOSE x \in starts : \A y \in starts : x <= y
               a == i + Len(prefix)
               \* the capture is greedy: it runs to the last slash that the
               \* slug characters reach
               ends == {j \in (a + 1)..Len(url) :
                          /\ Ch(url, j) = "/"
                          /\ \A k \in a..(j - 1) : IsSlugChar(Ch(url, k))}
               j == CHOOSE x \in ends : \A y \in ends : y <= x
               slug == SubSeq(url, a, j - 1)
           IN  IF slug \in DOMAIN CategoryMap THEN CategoryMap[slug] ELSE SlugTitle(slug)

\* extractFoldableSection(sections, heading)
extractFoldableSection(sections, heading) ==
  LET hits == {k \in 1..Len(sections) : StartsWith(sections[k], heading \o "\n")}
  IN  IF hits = {} THEN ""
      ELSE LET k == CHOOSE x \in hits : \A y \in hits : x <= y
           IN  Trim(SubSeq(sections[k], Len(heading) + 2, Len(sections[k])))

\* a scraped programme: members may be absent
KeyFacts(fee, format, location, start_date) ==
  [fee |-> fee, format |-> format, location |-> location, start_date |-> start_date]
NoKeyFacts == KeyFacts(Undefined, Undefined, Undefined, Undefined)
RawProgramme(url, title, description, key_facts, sections) ==
  [url |-> url, title |-> title, description |-> description, key_facts |-> key_facts,
   foldable_sections |-> sections]

\* x || ""
OrEmpty(x) == IF TruthyStr(x) THEN x.s ELSE ""

\* unique.map((p) => ({ title: titleCase(p.title), ... })): the row of one
\* programme; titleCase throws on an absent title
RowThrows(p) == ~p.title.defined
RowOf(p) ==
  LET target == Split(extractFoldableSection(p.foldable_sections, "WHO SHOULD ATTEND"), "\n")
  IN  Row(titleCase(p.title.s),
          extractCategory(p.url),
          IF TruthyStr(p.description) THEN Split(p.description.s, "\n")[1] ELSE "",
          p.url,
          OrEmpty(p.key_facts.fee), OrEmpty(p.key_facts.format),
          OrEmpty(p.key_facts.location), OrEmpty(p.key_facts.start_date),
          Join(SubSeq(target, 1, IF Len(target) < 2 THEN Len(target) ELSE 2), ". "),
          extractFoldableSection(p.foldable_sections, "WHY THIS PROGRAMME"))

\* programmes.filter((p) => { if (seen.has(p.url)) return false; seen.add(p.url); return true })
Unique(list) ==
  LET keep == {k \in 1..Len(list) : \A j \in 1..(k - 1) : list[j].url # list[k].url}
      F[k \in 0..Len(list)] ==
        IF k = 0 THEN <<>> ELSE IF k \in keep THEN Append(F[k - 1], list[k]) ELSE F[k - 1]
  IN  F[Len(list)]

\* ------------------------------------------------ seed-programmes: steps
UnauthorizedMessage == "Unauthorized"
NoArrayMessage == "No programmes array provided"
InsertFailedMessage == "Insert failed: connection reset"

ProgrammesArray(list) == [kind |-> "array", list |-> list]
NotAnArray == [kind |-> "object", list |-> <<>>]

StrategyUrl == "https://v.be/programmes-in-strategy/lead/"
FinanceUrl == "https://v.be/programmes-in-accounting-finance/cfo/"
RawLead ==
  RawProgramme(StrategyUrl, Str("LEADING the change"), Str("Lead.\nMore"),
               KeyFacts(Str("9k"), Undefined, Str("Gent"), Undefined),
               <<"WHO SHOULD ATTEND\nManagers\nLeaders\nAll", "WHY THIS PROGRAMME\nGrowth">>)
RawLeadAgain == RawProgramme(StrategyUrl, Str("lead again"), Undefined, NoKeyFacts, <<>>)
RawCfo == RawProgramme(FinanceUrl, Str("cfo of the future"), Str(""), NoKeyFacts, <<>>)
RawUntitled == RawProgramme(FinanceUrl, Undefined, Undefined, NoKeyFacts, <<>>)
\* a scrape of more programmes than one batch holds
LongList ==
  [k \in 1..(BatchSize + 1) |->
     RawProgramme("https://v.be/programmes-in-strategy/p" \o ToString(k) \o "/",
                  Str("course " \o ToString(k)), Undefined, NoKeyFacts, <<>>)]

SeedLists == {<<>>, <<RawLead, RawCfo, RawLeadAgain>>, <<RawLeadAgain>>, <<RawUntitled>>, LongList}
SeedRequests ==
  {SeedRequest("OPTIONS", TRUE, NoProgrammesMember, Undefined),
   SeedRequest("POST", FALSE, NoProgrammesMember, Undefined)}
    \cup {SeedRequest("POST", TRUE, l, pw) :
            l \in {NoProgrammesMember, NotAnArray, ProgrammesArray(<<RawLead, RawCfo, RawLeadAgain>>)},
            pw \in {Undefined, Str("s3cret"), Str("guess")}}
    \cup {SeedRequest("POST", TRUE, ProgrammesArray(l), Str("s3cret")) : l \in SeedLists}
\* the re-seeds that run side by side
ReseedRequests ==
  {SeedRequest("POST", TRUE, ProgrammesArray(l), Str("s3cret")) :
     l \in {<<RawLead, RawCfo>>, <<RawLeadAgain>>}}

\* min(i + BatchSize, rows.length)
BatchEnd(i, n) == IF i + BatchSize < n THEN i + BatchSize ELSE n

\* seed-programmes in slot i, from the request to the await of the delete
SeedStart(i, r) ==
  /\ seed[i].pc = "idle"
  /\ seed' = [seed EXCEPT ![i] =
       IF r.method = "OPTIONS"
       THEN [@ EXCEPT !.req = r, !.pc = "done", !.response = SeedResponse(200, "", 0, 0)]
       ELSE IF ~r.jsonOk
       THEN [@ EXCEPT !.req = r, !.pc = "done",
                      !.response = SeedResponse(500, SyntaxErrorMessage, 0, 0)]
       ELSE IF TruthyStr(ADMIN_PASSWORD) /\ r.admin_password # ADMIN_PASSWORD
       THEN [@ EXCEPT !.req = r, !.pc = "done",
                      !.response = SeedResponse(401, UnauthorizedMessage, 0, 0)]
       ELSE IF r.programmes.kind # "array"
       THEN [@ EXCEPT !.req = r, !.pc = "done",
                      !.response = SeedResponse(400, NoArrayMessage, 0, 0)]
       ELSE [@ EXCEPT !.req = r, !.pc = "deleting", !.unique = Unique(r.programmes.list),
                      !.deletes = @ + 1]]
  /\ UNCHANGED <<world, ADMIN_PASSWORD, single, inv, submissions, adm, front>>

\* slot i, from the settled delete (its error, if any, is not looked at) to the
\* await of the first insert, or to the response when there is nothing to insert
SeedDelete(i, err) ==
  /\ seed[i].pc = "deleting"
  /\ programmes' = IF err THEN programmes ELSE <<>>
  /\ LET u == seed[i].unique
     IN  seed' = [seed EXCEPT ![i] =
           IF \E k \in 1..Len(u) : RowThrows(u[k])
           THEN [@ EXCEPT !.found = programmes, !.pc = "done",
                          !.response = SeedResponse(500, TypeErrorMessage, 0, 0)]
           ELSE IF Len(u) = 0
           THEN [@ EXCEPT !.found = programmes, !.pc = "done",
                          !.response = SeedResponse(200, "", 0, 0)]
           ELSE [@ EXCEPT !.found = programmes, !.pc = "inserting",
                          !.rows = [k \in 1..Len(u) |-> RowOf(u[k])],
                          !.i = 0, !.inserts = @ + 1]]
  /\ UNCHANGED <<LOVABLE_API_KEY, ADMIN_PASSWORD, single, inv, submissions, adm, front>>

\* slot i, from a settled insert of one batch to the await of the next one, or
\* to the response
SeedInsert(i, err) ==
  /\ seed[i].pc = "inserting"
  /\ LET rows == seed[i].rows
         j == BatchEnd(seed[i].i, Len(rows))
         batch == SubSeq(rows, seed[i].i + 1, j)
     IN  IF err
         THEN /\ programmes' = programmes
              /\ seed' = [seed EXCEPT ![i] =
                   [@ EXCEPT !.pc = "done",
                             !.response = SeedResponse(500, InsertFailedMessage, 0, 0)]]
         ELSE /\ programmes' = programmes \o batch
              /\ seed' = [seed EXCEPT ![i] =
                   IF seed[i].i + BatchSize < Len(rows)
                   THEN [@ EXCEPT !.i = @ + BatchSize, !.inserted = @ + Len(batch),
                                  !.inserts = @ + 1]
                   ELSE [@ EXCEPT !.i = @ + BatchSize, !.inserted = @ + Len(batch),
                                  !.pc = "done",
                                  !.response = SeedResponse(200, "", seed[i].inserted + Len(batch),
                                                            Len(rows))]]
  /\ UNCHANGED <<LOVABLE_API_KEY, ADMIN_PASSWORD, single, inv, submissions, adm, front>>

\* everything but the store and the secret, before a seed request arrives
SeedAtRest ==
  /\ seed = [i \in Slots |-> IdleSeed]
  /\ LOVABLE_API_KEY = TRUE
  /\ inv = [i \in Slots |-> IdleInvocation]
  /\ submissions = <<>>
  /\ adm = IdleAdmin
  /\ pc = "idle"
  /\ req = NoRequest
  /\ dbResult = NoDbResult
  /\ catalogue = ""
  /\ modelRequest = NoModelRequest
  /\ reply = NoReply
  /\ dbReads = 0
  /\ modelCalls = 0
  /\ secondaryDecode = FALSE
  /\ response = NoResponse
  /\ FrontIdle

\* one seed-programmes invocation, in every configuration of the secret
InitSeed ==
  /\ programmes \in Tables
  /\ ADMIN_PASSWORD \in AdminPasswords
  /\ SeedAtRest

NextSeed ==
  \/ \E r \in SeedRequests : SeedStart(1, r)
  \/ \E e \in BOOLEAN : SeedDelete(1, e)
  \/ \E e \in BOOLEAN : SeedInsert(1, e)

SpecSeed == InitSeed /\ [][NextSeed]_vars

\* two re-seeds and a recommend invocation side by side
ReaderRequest ==
  Request("recommend", "current", "POST", TRUE,
          ProfileObject(<<Entry("jobTitle", PStr("Manager"))>>), Undefined, Undefined, Undefined)

InitReseed ==
  /\ programmes \in {<<>>, <<RowOf(RawLead), RowOf(RawCfo)>>}
  /\ ADMIN_PASSWORD = Str("s3cret")
  /\ SeedAtRest

NextReseed ==
  \/ \E i \in Slots, r \in ReseedRequests : SeedStart(i, r)
  \/ \E i \in Slots : SeedDelete(i, FALSE)
  \/ \E i \in Slots : SeedInsert(i, FALSE)
  \/ ConcStart(1, ReaderRequest)
  \/ ConcCatalogue(1, FALSE)

SpecReseed == InitReseed /\ [][NextReseed]_vars

\* ----------------------------------------------------- backend-proxy: steps
RailwayUrls ==
  {Undefined, Str(""), Str("api.example.app"), Str("https://api.example.app/"),
   Str("http://backend:8000")}
\* RAILWAY_BACKEND_URL.replace(/\/$/, ""), then the protocol if it is missing
BaseUrl(u) ==
  LET cut == IF EndsWith(u, "/") THEN SubSeq(u, 1, Len(u) - 1) ELSE u
  IN IF ~StartsWith(cut, "http://") /\ ~StartsWith(cut, "https://")
     THEN "https://" \o cut
     ELSE cut
BackendUrl(u) == BaseUrl(u) \o "/recommend"
\* the parts appended to the multipart form
FormFields(r) ==
  (IF TruthyStr(r.file_base64) /\ TruthyStr(r.file_name) THEN {"file"} ELSE {})
    \cup (IF TruthyStr(r.career_goals) THEN {"career_goals"} ELSE {})
    \cup (IF TruthyStr(r.linkedin_text) THEN {"linkedin_url"} ELSE {})
\* atob(file_base64) raises on text that is not base64
AtobThrows(r) == TruthyStr(r.file_base64) /\ TruthyStr(r.file_name) /\ ~r.decodable

NoUrlMessage == "RAILWAY_BACKEND_URL not configured"
AtobMessage == "Failed to decode base64"
NotAFunctionMessage == "map is not a function"
StatusMessage(status) == "Backend returned status " \o ToString(status)

\* the mapping of one backend recommendation to the page's shape
MapRec(rec) ==
  LET m == rec.m
      blank == JString("")
  IN [programmeTitle |-> Or(Or(m.title, m.programmeTitle), blank),
      category |-> Or(m.category, blank),
      fee |-> Or(m.fee, blank),
      duration |-> Or(Or(m.format, m.duration), blank),
      location |-> Or(m.location, blank),
      startDate |-> Or(Or(m.start_date, m.startDate), blank),
      url |-> Or(m.url, blank),
      reasoning |-> Or(Or(m.reason, m.reasoning), blank)]
\* the response to a decoded body of a successful backend reply
MappedResponse(doc) ==
  LET recs == doc.recommendations
      list == IF recs.k = "array" THEN recs.items ELSE <<>>
  IN IF recs.k \in {"string", "object"}
     THEN ProxyError(500, JString(NotAFunctionMessage))
     ELSE IF \E i \in DOMAIN list : list[i].kind = "null"
     THEN ProxyError(500, JString(TypeErrorMessage))
     ELSE ProxyResponse(200,
                        {"recommendations", "outreachEmail", "profile", "topCategories"},
                        JUndefined,
                        [i \in DOMAIN list |-> MapRec(list[i])],
                        Or(doc.email_draft, JString("")),
                        Or(doc.profile, JObject),
                        Or(doc.top_categories, JArray))
\* the response to what fetch() settled with
ProxyOutcome(b) ==
  IF b.outcome = "rejected" THEN ProxyError(500, JString(FetchErrorMessage))
  ELSE IF ~Ok(b.status)
  THEN IF b.isJson /\ b.doc.kind = "object" /\ Truthy(b.doc.error)
       THEN ProxyError(200, b.doc.error)
       ELSE ProxyError(200, JString(StatusMessage(b.status)))
  ELSE IF ~b.isJson THEN ProxyError(500, JString(SyntaxErrorMessage))
  ELSE IF b.doc.kind = "null" THEN ProxyError(500, JString(TypeErrorMessage))
  ELSE IF Truthy(b.doc.error) THEN ProxyError(200, b.doc.error)
  ELSE MappedResponse(b.doc)

\* recommendations as the backend may send them
RecMembers(f) == [k \in BackendRecKeys |-> IF k \in DOMAIN f THEN f[k] ELSE JUndefined]
RecSnake ==
  BackendRec(RecMembers([title |-> JString("MBA"), category |-> JString("General"),
                         fee |-> JString("EUR 4,995"), format |-> JString("5 days"),
                         location |-> JString("Leuven"), start_date |-> JString("12 Jan"),
                         url |-> JString(StrategyUrl), reason |-> JString("fit")]))
RecCamel ==
  BackendRec(RecMembers([programmeTitle |-> JString("CFO"), duration |-> JString("3 days"),
                         startDate |-> JString("2 Feb"), reasoning |-> JString("finance"),
                         title |-> JString("")]))
RecBare == BackendRec(RecMembers([category |-> JString("")]))
RecNumericFee ==
  BackendRec(RecMembers([title |-> JString("MBA"), fee |-> JNumber(4995),
                         reason |-> JString("fit")]))
RecFree == BackendRec(RecMembers([title |-> JString("Open day"), fee |-> JNumber(0)]))
BackendRecLists ==
  {<<>>, <<RecSnake>>, <<RecCamel, RecBare>>, <<RecSnake, RecNumericFee>>, <<RecFree>>,
   <<RecSnake, NullRec>>}
BackendRecsValues ==
  {NoBackendRecs, [k |-> "null", items |-> <<>>], [k |-> "string", items |-> <<>>]}
    \cup {[k |-> "array", items |-> l] : l \in BackendRecLists}
BackendDocs ==
  {NullDoc}
    \cup {BackendDoc("object", e, NoBackendRecs, JUndefined, JUndefined, JUndefined) :
            e \in {JString("Could not read the file"), JObject, JNumber(1)}}
    \cup {BackendDoc("object", e, r, JUndefined, JUndefined, JUndefined) :
            e \in {JUndefined, JString("")}, r \in BackendRecsValues}
    \cup {BackendDoc("object", JUndefined, [k |-> "array", items |-> <<RecSnake>>],
                     JString("Dear team"), JObject, JArray),
          BackendDoc("object", JString("partial"), [k |-> "array", items |-> <<RecSnake>>],
                     JString("Dear team"), JObject, JArray)}
BackendReplies ==
  {BackendReply("rejected", 0, FALSE, NullDoc)}
    \cup {BackendReply("response", st, FALSE, NullDoc) : st \in {200, 500, 502}}
    \cup {BackendReply("response", st, TRUE, d) : st \in {200, 422, 500}, d \in BackendDocs}

ProxyRequests ==
  {ProxyRequest("OPTIONS", TRUE, Undefined, TRUE, Undefined, Undefined, Undefined),
   ProxyRequest("POST", FALSE, Undefined, TRUE, Undefined, Undefined, Undefined),
   ProxyRequest("POST", TRUE, Str("Q1Y="), TRUE, Str("cv.pdf"), Undefined, Undefined),
   ProxyRequest("POST", TRUE, Str("%"), FALSE, Str("cv.pdf"), Undefined, Undefined),
   ProxyRequest("POST", TRUE, Str("Q1Y="), TRUE, Undefined, Undefined, Undefined),
   ProxyRequest("POST", TRUE, Undefined, TRUE, Undefined, Str("Goals: lead"), Undefined),
   ProxyRequest("POST", TRUE, Undefined, TRUE, Undefined, Undefined, Str("Head of Ops")),
   ProxyRequest("POST", TRUE, Undefined, TRUE, Undefined, Str(""), Undefined)}

ProxyStart(r, env) ==
  /\ prx.pc = "idle"
  /\ LET failed(msg) == [prx EXCEPT !.pc = "done", !.req = r, !.RAILWAY_BACKEND_URL = env,
                                    !.response = ProxyError(500, JString(msg))]
     IN prx' =
          IF r.method = "OPTIONS"
          THEN [prx EXCEPT !.pc = "done", !.req = r, !.RAILWAY_BACKEND_URL = env,
                           !.response = ProxyPreflight]
          ELSE IF ~TruthyStr(env) THEN failed(NoUrlMessage)
          ELSE IF ~r.jsonOk THEN failed(SyntaxErrorMessage)
          ELSE IF AtobThrows(r) THEN failed(AtobMessage)
          ELSE [prx EXCEPT !.pc = "fetching", !.req = r, !.RAILWAY_BACKEND_URL = env,
                           !.call = BackendCall(BackendUrl(env.s), FormFields(r))]
  /\ UNCHANGED <<world, ADMIN_PASSWORD, single, inv, submissions, adm, seed, page, pipe>>

ProxyBackend(b) ==
  /\ prx.pc = "fetching"
  /\ prx' = [prx EXCEPT !.pc = "done", !.reply = b, !.response = ProxyOutcome(b)]
  /\ UNCHANGED <<world, ADMIN_PASSWORD, single, inv, submissions, adm, seed, page, pipe>>

\* the runtime serves the next request
ProxyNext ==
  /\ prx.pc = "done"
  /\ prx' = IdleProxy
  /\ UNCHANGED <<world, ADMIN_PASSWORD, single, inv, submissions, adm, seed, page, pipe>>

\* everything outside the front end, at rest
ServerAtRest ==
  /\ programmes = <<>>
  /\ ADMIN_PASSWORD = Undefined
  /\ SeedAtRest

InitProxy == ServerAtRest

NextProxy ==
  \/ \E r \in ProxyRequests, env \in RailwayUrls : ProxyStart(r, env)
  \/ \E b \in BackendReplies : ProxyBackend(b)
  \/ ProxyNext

SpecProxy == InitProxy /\ [][NextProxy]_vars

\* ------------------------------------------------------ Index page: steps
ProfileData(jobTitle, industry, yearsExperience, careerGoals, areasOfInterest) ==
  [jobTitle |-> jobTitle, industry |-> industry, yearsExperience |-> yearsExperience,
   careerGoals |-> careerGoals, areasOfInterest |-> areasOfInterest]
EmptyForm == ProfileData("", "", "", "", "")
\* what the visitor has entered when pressing the button
PageInput(activeTab, cvFile, linkedinText, formData) ==
  [activeTab |-> activeTab, cvFile |-> cvFile, linkedinText |-> linkedinText,
   formData |-> formData]
hasInput(in) ==
  \/ in.activeTab = "form" /\ (in.formData.jobTitle # "" \/ in.formData.careerGoals # "")
  \/ in.activeTab = "cv" /\ in.cvFile
  \/ in.activeTab = "linkedin" /\ in.linkedinText # ""
PageInputs ==
  {in \in {PageInput("form", FALSE, "", ProfileData("CFO", "", "", "", "")),
           PageInput("form", FALSE, "", ProfileData("", "Banking", "12", "lead", "AI")),
           PageInput("cv", TRUE, "", EmptyForm),
           PageInput("linkedin", FALSE, "Head of Ops", EmptyForm),
           PageInput("linkedin", FALSE, "", EmptyForm),
           PageInput("form", TRUE, "", ProfileData("", "Banking", "", "", ""))} :
     hasInput(in)}

\* parts.join(". ")
JoinParts(parts) ==
  LET RECURSIVE join(_)
      join(k) == IF k = 0 THEN ""
                 ELSE IF k = 1 THEN parts[1]
                 ELSE join(k - 1) \o ". " \o parts[k]
  IN join(Len(parts))
FormParts(f) ==
  (IF f.jobTitle # "" THEN <<"Current role: " \o f.jobTitle>> ELSE <<>>)
    \o (IF f.industry # "" THEN <<"Industry: " \o f.industry>> ELSE <<>>)
    \o (IF f.yearsExperience # "" THEN <<f.yearsExperience \o " years of experience">> ELSE <<>>)
    \o (IF f.careerGoals # "" THEN <<"Goals: " \o f.careerGoals>> ELSE <<>>)
    \o (IF f.areasOfInterest # "" THEN <<"Interests: " \o f.areasOfInterest>> ELSE <<>>)
\* the body of the backend-proxy call, once any file has been read
FileBody == ProxyRequest("POST", TRUE, Str("Q1Y="), TRUE, Str("cv.pdf"), Undefined, Undefined)
BodyOf(in) ==
  IF in.activeTab = "linkedin" /\ in.linkedinText # ""
  THEN ProxyRequest("POST", TRUE, Undefined, TRUE, Undefined, Undefined, Str(in.linkedinText))
  ELSE ProxyRequest("POST", TRUE, Undefined, TRUE, Undefined,
                    Str(JoinParts(FormParts(in.formData))), Undefined)

NonTwoXxMessage == "Edge Function returned a non-2xx status code"
RelayErrorMessage == "Failed to send a request to the Edge Function"
NoRecsToast == Toast("No recommendations returned", "default")
WentWrongToast == Toast("Something went wrong", "destructive")

\* supabase.functions.invoke on the response of the function
Invoked(resp) ==
  IF Ok(resp.status) THEN InvokeResult(TRUE, resp, "")
  ELSE InvokeResult(FALSE, NoProxyResponse, NonTwoXxMessage)
\* data?.recommendations?.length
HasRecommendationsLoose(result) == result.hasData
HasRecommendations(result) ==
  /\ result.hasData
  /\ "recommendations" \in result.data.members
  /\ Len(result.data.recommendations) > 0

\* handleSubmit from the result of the call to its end
Settled(result) ==
  IF result.error # ""
  THEN [page EXCEPT !.pc = "done", !.result = result, !.loading = FALSE,
                    !.toasts = Append(@, WentWrongToast)]
  ELSE IF ~HasRecommendations(result)
  THEN [page EXCEPT !.pc = "done", !.result = result, !.loading = FALSE,
                    !.toasts = Append(@, NoRecsToast)]
  ELSE [page EXCEPT !.pc = "done", !.result = result, !.loading = FALSE,
                    !.saves = @ + 1, !.navigated = TRUE]

\* handleSubmit up to its first await
PageSubmit(in) ==
  /\ page.pc = "idle"
  /\ ~page.loading
  /\ hasInput(in)
  /\ page' = IF in.activeTab = "cv" /\ in.cvFile
             THEN [page EXCEPT !.pc = "reading", !.activeTab = in.activeTab, !.loading = TRUE]
             ELSE [page EXCEPT !.pc = "invoking", !.activeTab = in.activeTab,
                               !.loading = TRUE, !.body = BodyOf(in)]
  /\ UNCHANGED <<world, ADMIN_PASSWORD, single, inv, submissions, adm, seed, prx, pipe>>

\* cvFile.arrayBuffer() settles
PageFileRead(ok) ==
  /\ page.pc = "reading"
  /\ page' = IF ok
             THEN [page EXCEPT !.pc = "invoking", !.body = FileBody]
             ELSE [page EXCEPT !.pc = "done", !.loading = FALSE,
                               !.toasts = Append(@, WentWrongToast)]
  /\ UNCHANGED <<world, ADMIN_PASSWORD, single, inv, submissions, adm, seed, prx, pipe>>

\* the call never reaches the function
PageInvokeLost ==
  /\ page.pc = "invoking"
  /\ prx.pc = "idle"
  /\ page' = Settled(InvokeResult(FALSE, NoProxyResponse, RelayErrorMessage))
  /\ UNCHANGED <<world, ADMIN_PASSWORD, single, inv, submissions, adm, seed, prx, pipe>>

\* the function takes the page's call
PageInvoke(env) ==
  /\ page.pc = "invoking"
  /\ ProxyStart(page.body, env)

\* the function's response reaches the page
PageResult ==
  /\ page.pc = "invoking"
  /\ prx.pc = "done"
  /\ page' = Settled(Invoked(prx.response))
  /\ UNCHANGED <<world, ADMIN_PASSWORD, single, inv, submissions, adm, seed, prx, pipe>>

InitPage == ServerAtRest

NextPage ==
  \/ \E in \in PageInputs : PageSubmit(in)
  \/ \E ok \in BOOLEAN : PageFileRead(ok)
  \/ PageInvokeLost
  \/ \E env \in RailwayUrls : PageInvoke(env)
  \/ \E b \in BackendReplies : ProxyBackend(b)
  \/ PageResult

SpecPage == InitPage /\ [][NextPage]_vars

\* ------------------------------------------------ architecture page: steps
Steps == 20
\* pipelineNodes.reduce((s, n) => s + n.duration, 0)
SumTo(n) ==
  LET RECURSIVE sum(_)
      sum(k) == IF k = 0 THEN 0 ELSE sum(k - 1) + Durations[k]
  IN sum(n)
totalDuration == SumTo(Len(Durations))
\* Math.min(Math.round((elapsed / totalDuration) * 100), 100)
ProgressAt(elapsed) ==
  LET rounded == (200 * elapsed + totalDuration) \div (2 * totalDuration)
  IN IF rounded < 100 THEN rounded ELSE 100

\* what the visitor has entered when clicking Run
PipeInput(activeTab, cvFile, voiceText, jobTitle, careerGoals) ==
  [activeTab |-> activeTab, cvFile |-> cvFile, voiceText |-> voiceText,
   jobTitle |-> jobTitle, careerGoals |-> careerGoals]
pipeHasInput(in) ==
  \/ in.activeTab = "form" /\ (in.jobTitle # "" \/ in.careerGoals # "")
  \/ in.activeTab = "cv" /\ in.cvFile
  \/ in.activeTab = "voice" /\ in.voiceText # ""
PipeInputs ==
  {PipeInput("form", FALSE, "", "CFO", ""), PipeInput("form", FALSE, "", "", ""),
   PipeInput("cv", TRUE, "", "", ""), PipeInput("cv", FALSE, "", "", ""),
   PipeInput("voice", FALSE, "I lead a team", "", "")}
\* whether runPipeline finds nothing to send (the form branch with no parts)
NoParts(in) ==
  /\ ~(in.activeTab = "cv" /\ in.cvFile)
  /\ ~(in.activeTab = "voice" /\ in.voiceText # "")
  /\ in.jobTitle = ""
  /\ in.careerGoals = ""

\* resetPipeline: the page's state only, the calls in flight go on
Reset(p) ==
  [p EXCEPT !.status = [n \in Nodes |-> "idle"], !.running = FALSE, !.progress = 0,
            !.pipelineComplete = FALSE, !.isLive = FALSE, !.backendStatus = "unknown"]
\* animateNode up to its first await
Activate(p, k, n) ==
  [p EXCEPT !.status[n] = "active", !.runs[k].pc = "animating", !.runs[k].node = n,
            !.runs[k].s = 0]
\* runPipeline after animateNode(n - 1) has returned
Continue(p, k, n) ==
  IF n = 2 THEN [p EXCEPT !.runs[k].pc = "awaiting"]
  ELSE IF n < Len(Durations) THEN Activate(p, k, n + 1)
  ELSE [p EXCEPT !.progress = 100, !.running = FALSE, !.pipelineComplete = TRUE,
                 !.runs[k].pc = "finished"]

\* the slot a new call of runPipeline takes
FreeSlots == {k \in Slots : pipe.runs[k].pc \in {"idle", "finished"}}
\* a click on Run: runPipeline up to its first await
ClickRun(k, in) ==
  /\ ~pipe.running
  /\ pipeHasInput(in)
  /\ k \in FreeSlots
  /\ \A j \in FreeSlots : k <= j
  /\ LET started == [Reset(pipe) EXCEPT !.running = TRUE, !.runs[k] = NoPipeRun]
     IN pipe' =
          IF in.activeTab = "cv" /\ in.cvFile
          THEN [started EXCEPT !.runs[k].pc = "reading"]
          ELSE IF NoParts(in)
          THEN [started EXCEPT !.running = FALSE, !.toasts = 1, !.runs[k].pc = "finished"]
          ELSE Activate(started, k, 1)
  /\ UNCHANGED <<world, ADMIN_PASSWORD, single, inv, submissions, adm, seed, prx, page>>

\* a click on Reset
ClickReset ==
  /\ pipe' = Reset(pipe)
  /\ UNCHANGED <<world, ADMIN_PASSWORD, single, inv, submissions, adm, seed, prx, page>>

\* cvFile.arrayBuffer() resolves
PipeFileRead(k) ==
  /\ pipe.runs[k].pc = "reading"
  /\ pipe' = Activate(pipe, k, 1)
  /\ UNCHANGED <<world, ADMIN_PASSWORD, single, inv, submissions, adm, seed, prx, page>>

\* one timeout of animateNode fires; after the last one the node is done and
\* runPipeline goes on to its next await
PipeTick(k) ==
  /\ pipe.runs[k].pc = "animating"
  /\ pipe.runs[k].s < Steps
  /\ LET n == pipe.runs[k].node
         elapsed == pipe.runs[k].elapsed + Durations[n] \div Steps
         ticked == [pipe EXCEPT !.runs[k].elapsed = elapsed, !.runs[k].s = @ + 1,
                                !.progress = ProgressAt(elapsed)]
     IN pipe' = IF ticked.runs[k].s < Steps
                THEN ticked
                ELSE Continue([ticked EXCEPT !.status[n] = "done"], k, n)
  /\ UNCHANGED <<world, ADMIN_PASSWORD, single, inv, submissions, adm, seed, prx, page>>

\* the backend call settles, with recommendations (live) or without
PipeBackend(k, live) ==
  /\ pipe.runs[k].pc = "awaiting"
  /\ LET told == IF live
                 THEN [pipe EXCEPT !.isLive = TRUE, !.backendStatus = "online"]
                 ELSE [pipe EXCEPT !.backendStatus = "offline"]
     IN pipe' = Activate(told, k, 3)
  /\ UNCHANGED <<world, ADMIN_PASSWORD, single, inv, submissions, adm, seed, prx, page>>

InitPipe == ServerAtRest

NextPipe ==
  \/ \E k \in Slots, in \in PipeInputs : ClickRun(k, in)
  \/ ClickReset
  \/ \E k \in Slots : PipeFileRead(k)
  \/ \E k \in Slots : PipeTick(k)
  \/ \E k \in Slots, live \in BOOLEAN : PipeBackend(k, live)

SpecPipe == InitPipe /\ [][NextPipe]_vars

\* ------------------------------------------------------------- properties
Done(ep) == pc = "done" /\ req.endpoint = ep /\ req.method = "POST" /\ req.jsonOk
\* fetch() settled with a 2xx response whose body decodes to JSON
GotMessage == reply.kind = "response" /\ Ok(reply.status) /\ reply.body # "notJson"
HasToolCall == GotMessage /\ reply.message.toolCall.kind # "none"
IsFailure(resp) == resp.status >= 400 /\ resp.error # "" /\ resp.body = NoBody

\* C1: a recommend invocation with a profile whose catalogue read errors or
\* returns no row, and whose request carries no inline catalogue, ends with the
\* catalogue-unavailable failure and has issued no model call.
CatalogueUnavailableMessage ==
  IF req.revision = "current" THEN NoCatalogueMessage
  ELSE IF dbResult.error THEN LoadFailedMessage ELSE EmptyCatalogueMessage
C1_NoCatalogueNoModelCall ==
  ( /\ req.endpoint = "recommend"
    /\ dbResult.read
    /\ (dbResult.error \/ Len(dbResult.data) = 0)
    /\ ~(req.catalogue.defined /\ req.catalogue.s # "") )
  => /\ pc = "done"
     /\ response = ErrorResponse(500, CatalogueUnavailableMessage)
     /\ modelCalls = 0
C1_Witness ==
  /\ Done("recommend") /\ req.revision = "current"
  /\ dbResult.read /\ ~dbResult.error /\ dbResult.data = <<>>
  /\ ~req.catalogue.defined
  /\ response.error = NoCatalogueMessage
  /\ modelCalls = 0

\* C2: when the model's message carries a function-result, the text content is
\* never decoded, whatever the content is and whether or not the arguments parse.
C2_PrimaryPathExcludesSecondary ==
  (Done("recommend") /\ HasToolCall) => ~secondaryDecode
C2_Witness ==
  /\ Done("recommend") /\ HasToolCall
  /\ reply.message.toolCall.arguments = BrokenJson
  /\ reply.message.content = Str(Fenced(Stringify(ValidRecSet), "json"))
  /\ IsFailure(response)
  /\ ~secondaryDecode

\* C3: a message without function-result whose content is the JSON text of a
\* valid RecommendationSet inside a code fence (with or without the json tag)
\* gives the successful response the unfenced text gives.
UnfencedResponse(v) ==
  RecommendRespond(MessageReply(Message(NoToolCall, Str(Stringify(v))))).response
C3_FencedEqualsUnfenced ==
  \A v \in ValidRecSets, tag \in {"json", ""} :
    ( /\ Done("recommend")
      /\ reply = MessageReply(Message(NoToolCall, Str(Fenced(Stringify(v), tag)))) )
    => /\ response.status = 200
       /\ response = UnfencedResponse(v)

\* C4: an upstream status 429 makes parse-cv and recommend answer with status
\* 429 and an error message other than the one they answer to status 402.
QuotaReply == Reply("response", 402, "text", NoMessage)
QuotaAnswer ==
  IF req.endpoint = "recommend" THEN RecommendRespond(QuotaReply).response
  ELSE ParseCvRespond(QuotaReply).response
C4_RateLimitedDistinct ==
  (pc = "done" /\ reply.kind = "response" /\ reply.status = 429)
  => /\ IsFailure(response)
     /\ response.status = 429
     /\ QuotaAnswer.status = 402
     /\ response.error # QuotaAnswer.error
C4_Witness ==
  /\ Done("recommend")
  /\ reply.kind = "response" /\ reply.status = 429
  /\ response = ErrorResponse(429, RateLimitMessage)

\* C5: function-result arguments that parse to the empty object make
\* synthesis fail with the upstream-format failure, never succeed.
C5_EmptyObjectRejected ==
  ( /\ Done("recommend") /\ GotMessage
    /\ reply.message.toolCall.kind = "call"
    /\ JSONParse(reply.message.toolCall.arguments) = [ok |-> TRUE, v |-> EmptyObject] )
  => response = ErrorResponse(500, NoRecommendationsMessage)
C5_Witness ==
  /\ Done("recommend") /\ GotMessage
  /\ reply.message.toolCall = ToolCall("{}")
  /\ response.status = 500

\* C6: every successful recommend response carries exactly 3 recommendations,
\* each with a non-empty title and a non-empty reasoning.
C6_ExactlyThreeComplete ==
  (Done("recommend") /\ response.status = 200)
  => /\ response.body.kind = "result"
     /\ response.body.v.recs.k = "array"
     /\ Len(response.body.v.recs.items) = 3
     /\ \A i \in DOMAIN response.body.v.recs.items :
          /\ response.body.v.recs.items[i].programmeTitle # ""
          /\ response.body.v.recs.items[i].reasoning # ""

\* C7: a decoded result whose recommendations member is not an array or is an
\* empty array is rejected with the upstream-format failure.
DecodedObject ==
  IF reply.message.toolCall.kind = "call" THEN JSONParse(reply.message.toolCall.arguments)
  ELSE IF reply.message.toolCall.kind = "none" /\ reply.message.content.defined
       THEN JSONParse(StripFence(Trim(reply.message.content.s)))
       ELSE [ok |-> FALSE, v |-> JNull]
C7_EmptyOrNonArrayRejected ==
  ( /\ Done("recommend") /\ GotMessage
    /\ DecodedObject.ok /\ DecodedObject.v.kind = "object"
    /\ (DecodedObject.v.recs.k # "array" \/ Len(DecodedObject.v.recs.items) = 0) )
  => response = ErrorResponse(500, NoRecommendationsMessage)

\* C8: parse-cv answers with a profile holding every mandatory field, or with a
\* failure.
C8_ProfileCompleteOrFailure ==
  Done("parse-cv")
  => \/ IsFailure(response)
     \/ /\ response.status = 200
        /\ response.body.kind = "profile"
        /\ response.body.v.kind = "object"
        /\ MandatoryFields \subseteq DOMAIN response.body.v.fields

\* C9: without a function-result parse-cv fails with the upstream-format
\* failure and never decodes the text content, valid profile JSON included.
C9_NoFreeTextRecovery ==
  (Done("parse-cv") /\ GotMessage /\ reply.message.toolCall.kind = "none")
  => /\ response = ErrorResponse(500, NoStructuredProfileMessage)
     /\ ~secondaryDecode
C9_Witness ==
  /\ Done("parse-cv") /\ GotMessage
  /\ reply.message = Message(NoToolCall, Str(Stringify(Obj(NoRecs, NoEmail, FullProfile))))
  /\ response.status = 500
  /\ ~secondaryDecode

\* C10: a request without its required input (no file for parse-cv, no profile
\* for recommend) is answered with status 400 and has caused no catalogue read
\* and no model call.
MissingInput ==
  /\ req.method = "POST" /\ req.jsonOk
  /\ \/ req.endpoint = "recommend" /\ req.profile.type \in {"undefined", "null", "string"}
     \/ req.endpoint = "parse-cv" /\ (~req.file_base64.defined \/ req.file_base64.s = "")
C10_InvalidInputShortCircuits ==
  MissingInput
  => /\ pc = "done"
     /\ response.status = 400
     /\ response.error = (IF req.endpoint = "recommend" THEN NoProfileMessage ELSE NoFileMessage)
     /\ response.body = NoBody
     /\ dbReads = 0
     /\ modelCalls = 0
C10_Witness ==
  /\ Done("recommend") /\ req.profile.type = "null"
  /\ response = ErrorResponse(400, NoProfileMessage)
  /\ dbReads = 0 /\ modelCalls = 0

\* C11: in the current revision, once the catalogue read has returned, rows
\* without error make the catalogue the rendering of those rows whatever inline
\* catalogue the request carries; an error or no row, with an inline catalogue
\* in the request, makes the catalogue exactly the inline text. The prompt of a
\* model call embeds that catalogue.
StoreHasRows == ~dbResult.error /\ Len(dbResult.data) > 0
InlineSupplied == req.catalogue.defined /\ req.catalogue.s # ""
CatalogueInUse(text) ==
  /\ catalogue = text
  /\ modelCalls > 0 => modelRequest.system = "PROGRAMME CATALOGUE:\n" \o text
C11_StorePreferredInlineVerbatim ==
  (req.endpoint = "recommend" /\ req.revision = "current" /\ dbResult.read)
  => /\ StoreHasRows => CatalogueInUse(RenderCatalogue(dbResult.data))
     /\ (~StoreHasRows /\ InlineSupplied) => CatalogueInUse(req.catalogue.s)
C11_Witness ==
  /\ req.endpoint = "recommend" /\ req.revision = "current"
  /\ dbResult.read /\ StoreHasRows /\ InlineSupplied
  /\ modelCalls = 1
  /\ modelRequest.system = SystemPrompt(RenderCatalogue(programmes))
  /\ catalogue # req.catalogue.s

\* C12: the profile text sent to the model has no line that is a key, a colon
\* and a space with nothing after it.
C12_NoEmptyProfileLine ==
  (req.endpoint = "recommend" /\ modelCalls > 0)
  => IndexOf(modelRequest.user, ": \n", 1) = 0

\* C14: an invocation issues at most one model call, whatever the gateway
\* answers.
C14_AtMostOneModelCall == modelCalls <= 1
C14_Witness ==
  /\ Done("recommend")
  /\ reply.kind = "response" /\ reply.status = 503
  /\ modelCalls = 1

\* C15: in a recommend invocation the catalogue read has returned before the
\* model call is issued: while the read is in flight no model call has been
\* issued, and an issued model call follows the one read of the invocation.
C15_ReadBeforeModelCall ==
  req.endpoint = "recommend"
  => /\ pc = "rec_db" => (modelCalls = 0 /\ ~dbResult.read)
     /\ modelCalls > 0 => (dbResult.read /\ dbReads = 1 /\ pc # "rec_db")
C15_Witness ==
  /\ req.endpoint = "recommend" /\ pc = "rec_model"
  /\ dbResult.read /\ dbReads = 1 /\ modelCalls = 1

\* C16: an invocation that is not over has returned nothing; one that is over
\* has returned one response, which is either a success (status 200, no error
\* message, the decoded document or the empty preflight body) or a failure
\* (an error status, a non-empty message and nothing else in the body).
SuccessResponse(resp) ==
  /\ resp.status = 200 /\ resp.error = ""
  /\ resp.body.kind \in {"empty", "result", "profile"}
FailureResponse(resp) ==
  /\ resp.status \in {400, 402, 429, 500}
  /\ resp.error # ""
  /\ resp.body = NoBody
UpstreamOtherFailure ==
  reply.kind = "response" /\ ~(reply.status \in 200..299) /\ ~(reply.status \in {429, 402})
AbsentFunctionResult ==
  /\ GotMessage /\ reply.body = "message"
  /\ reply.message.toolCall.kind = "none"
  /\ req.endpoint = "recommend" => ~(reply.message.content.defined /\ reply.message.content.s # "")
UndecodablePayload ==
  \/ reply.kind = "response" /\ reply.status \in 200..299 /\ reply.body = "notJson"
  \/ /\ GotMessage /\ reply.body = "message"
     /\ reply.message.toolCall.kind = "call"
     /\ ~JSONParse(reply.message.toolCall.arguments).ok
CatalogueUnavailable ==
  /\ req.endpoint = "recommend" /\ dbResult.read
  /\ ~StoreHasRows
  /\ req.revision = "current" => ~InlineSupplied
C17_FailureStatusCodes ==
  /\ (pc = "done" /\ response.error # "") => response.status \in {400, 402, 429, 500}
  /\ (UpstreamOtherFailure \/ AbsentFunctionResult \/ UndecodablePayload \/ CatalogueUnavailable)
     => (pc = "done" /\ response.status = 500 /\ response.error # "")
C17_Witness ==
  /\ Done("parse-cv")
  /\ reply.kind = "response" /\ reply.status = 503
  /\ response = ErrorResponse(500, "AI gateway error: 503")

\* C18: whatever the other invocation and the seeding do meanwhile, an
\* invocation that is over has sent the prompt and returned the response that
\* the handler produces alone from the same request, catalogue read result and
\* model reply.
SoloOutcome(r, db, rep) ==
  IF r.endpoint = "recommend"
  THEN IF ~ProfileProvided(r.profile)
       THEN [modelRequest |-> NoModelRequest, response |-> ErrorResponse(400, NoProfileMessage)]
       ELSE LET res == ResolveCatalogue(db, r.catalogue)
            IN  IF ~res.ok
                THEN [modelRequest |-> NoModelRequest, response |-> Caught(res.error)]
                ELSE IF ~LOVABLE_API_KEY
                THEN [modelRequest |-> NoModelRequest, response |-> Caught(NoKeyMessage)]
                ELSE [modelRequest |-> ModelRequest(SystemPrompt(res.catalogue),
                                                    UserPrompt(ProfileSummary(r.profile))),
                      response |-> RecommendRespond(rep).response]
  ELSE IF ~FileProvided(r.file_base64)
       THEN [modelRequest |-> NoModelRequest, response |-> ErrorResponse(400, NoFileMessage)]
       ELSE IF ~LOVABLE_API_KEY
       THEN [modelRequest |-> NoModelRequest, response |-> Caught(NoKeyMessage)]
       ELSE [modelRequest |-> ModelRequest("You are a CV parser.",
                                           DataUrl(r.file_base64, r.file_name)),
             response |-> ParseCvRespond(rep).response]
C18_ConcurrentEqualsSolo ==
  \A i \in Slots :
    inv[i].pc = "done"
    => LET solo == SoloOutcome(inv[i].req, inv[i].dbResult, inv[i].reply)
       IN  /\ inv[i].response = solo.response
           /\ inv[i].modelRequest = solo.modelRequest
C18_Witness ==
  /\ inv[1].pc = "done" /\ inv[2].pc = "done"
  /\ inv[1].req # inv[2].req
  /\ inv[1].req.endpoint = "recommend" /\ inv[2].req.endpoint = "recommend"
  /\ inv[1].reply.kind = "response" /\ inv[2].reply.kind = "response"
  /\ inv[1].response.status = 200 /\ inv[2].response.status = 429
  /\ inv[1].modelRequest # inv[2].modelRequest

\* C19: the step in which an invocation's catalogue read returns is that
\* invocation's one read, it returns the rows the store holds at that step (or
\* an error), and a prompt built in that step from rows is built from exactly
\* those rows of the store.
C19_ReadsStoreAtItsOwnTime ==
  [][\A i \in Slots :
       (inv[i].pc = "rec_db" /\ inv'[i].pc # "rec_db")
       => /\ inv'[i].dbReads = 1
          /\ inv'[i].dbResult.read
          /\ inv'[i].dbResult.error \/ inv'[i].dbResult.data = programmes
          /\ (inv'[i].pc = "rec_model" /\ ~inv'[i].dbResult.error /\ Len(programmes) > 0)
             => inv'[i].modelRequest.system
                  = "PROGRAMME CATALOGUE:\n" \o RenderCatalogue(programmes)]_vars
C19_Witness ==
  /\ \A i \in Slots : inv[i].pc = "rec_model" /\ ~inv[i].dbResult.error
  /\ Len(inv[1].dbResult.data) > 0 /\ Len(inv[2].dbResult.data) > 0
  /\ inv[1].dbResult.data # inv[2].dbResult.data
  /\ inv[2].dbResult.data = programmes
  /\ \A i \in Slots : inv[i].modelRequest.system = SystemPrompt(RenderCatalogue(inv[i].dbResult.data))
  /\ inv[1].modelRequest.system # inv[2].modelRequest.system

\* C20 as stated: the list is returned only to a password equal to the
\* configured secret; a request whose password differs from the secret, or has
\* none, is answered 401 with no read of the table; with no secret configured
\* nothing is granted.
AdminDone == adm.pc = "done" /\ adm.req.method = "POST" /\ adm.req.jsonOk
SecretSet == ADMIN_PASSWORD.defined /\ ADMIN_PASSWORD.s # ""
GrantedOnlyToSecret ==
  adm.response.body = "submissions"
  => (SecretSet /\ adm.req.password = ADMIN_PASSWORD /\ adm.reads = 1)
NothingGrantedUnconfigured ==
  ~SecretSet => (adm.response.body # "submissions" /\ adm.reads = 0)
C20_WrongPasswordAlways401 ==
  /\ GrantedOnlyToSecret
  /\ (AdminDone /\ adm.req.password # ADMIN_PASSWORD)
     => (adm.response.status = 401 /\ adm.reads = 0)
  /\ NothingGrantedUnconfigured

\* C20, amended: the list is returned only to a password equal to the
\* configured secret; with a secret configured, a request whose password
\* differs from it or is missing is answered 401 with no read of the table;
\* with no secret configured (unset or empty) every request is answered 500,
\* nothing is read and nothing is granted.
C20_AdminGate ==
  /\ GrantedOnlyToSecret
  /\ (AdminDone /\ SecretSet /\ adm.req.password # ADMIN_PASSWORD)
     => (adm.response = AdminError(401, "Invalid password") /\ adm.reads = 0)
  /\ (AdminDone /\ ~SecretSet) => adm.response.status = 500
  /\ NothingGrantedUnconfigured
C20_Witness ==
  /\ AdminDone /\ SecretSet
  /\ adm.req.password = Str("guess")
  /\ Len(submissions) > 0
  /\ adm.response.status = 401 /\ adm.reads = 0

\* C21: a seed-programmes invocation sends a delete or an insert to the
\* programmes table only if the admin_password of its request equals the
\* server's ADMIN_PASSWORD, whatever the server's configuration.
C21_NoWriteWithoutPassword ==
  \A i \in Slots :
    (seed[i].deletes > 0 \/ seed[i].inserts > 0)
    => seed[i].req.admin_password = ADMIN_PASSWORD

\* C25: when the one seed-programmes request has been answered with success,
\* the table holds exactly one row per distinct URL of the input list, the row
\* built from the first entry with that URL, and inserted and total both equal
\* the number of distinct URLs.
InputList(i) == seed[i].req.programmes.list
InputUrls(i) == {InputList(i)[k].url : k \in 1..Len(InputList(i))}
FirstWithUrl(i, u) ==
  LET l == InputList(i)
      k == CHOOSE x \in 1..Len(l) : l[x].url = u /\ \A y \in 1..(x - 1) : l[y].url # u
  IN  l[k]
SeedSucceeded(i) ==
  /\ seed[i].pc = "done" /\ seed[i].req.method = "POST"
  /\ seed[i].response.status = 200
C25_TableIsTheInput ==
  SeedSucceeded(1)
  => /\ Len(programmes) = Cardinality(InputUrls(1))
     /\ \A u \in InputUrls(1) :
          \E k \in 1..Len(programmes) : programmes[k] = RowOf(FirstWithUrl(1, u))
     /\ seed[1].response.inserted = Cardinality(InputUrls(1))
     /\ seed[1].response.total = Cardinality(InputUrls(1))

\* C26: once two seed-programmes requests, interleaved in any way, have both
\* been answered, no two rows of the table have the same URL.
C26_NoDuplicateUrls ==
  (\A i \in Slots : seed[i].pc = "done")
  => \A j, k \in 1..Len(programmes) : programmes[j].url = programmes[k].url => j = k

\* C27: a catalogue read that returns while a seed-programmes request is
\* between its delete and its last insert returns either the whole table that
\* the delete found or the whole list of rows being inserted, and the prompt
\* embeds its rendering.
C27_ReadSeesWholeCatalogue ==
  [][(/\ inv[1].pc = "rec_db" /\ inv'[1].pc # "rec_db"
      /\ \E j \in Slots : seed[j].pc = "inserting")
     => \E j \in Slots :
          /\ seed[j].pc = "inserting"
          /\ inv'[1].dbResult.data \in {seed[j].found, seed[j].rows}
          /\ inv'[1].dbResult.data # <<>>
          /\ inv'[1].modelRequest.system
               = "PROGRAMME CATALOGUE:\n" \o RenderCatalogue(inv'[1].dbResult.data)]_vars

\* C22: every recommendation of a successful recommend response has the
\* title of an entry of the catalogue the request used.
CatalogueLines == Split(catalogue, "\n")
TitleOffered(t) == \E k \in 1..Len(CatalogueLines) : CatalogueLines[k] = "PROGRAMME: " \o t
C22_TitlesFromCatalogue ==
  (Done("recommend") /\ response.status = 200 /\ response.body.kind = "result"
     /\ response.body.v.recs.k = "array")
  => \A i \in DOMAIN response.body.v.recs.items :
       TitleOffered(response.body.v.recs.items[i].programmeTitle)

\* C23: when the catalogue comes from the store, the system prompt of the
\* model request holds the rendered block of every row read, one after the
\* other in the order the rows were returned.
RECURSIVE BlocksInOrder(_, _, _)
BlocksInOrder(text, blocks, from) ==
  IF blocks = <<>> THEN TRUE
  ELSE LET at == IndexOf(text, blocks[1], from)
       IN  at > 0 /\ BlocksInOrder(text, Tail(blocks), at + Len(blocks[1]))
C23_WholeCatalogueInPrompt ==
  (req.endpoint = "recommend" /\ modelCalls > 0 /\ StoreHasRows)
  => BlocksInOrder(modelRequest.system,
                   [k \in 1..Len(dbResult.data) |-> RenderRow(dbResult.data[k])], 1)
C23_Witness ==
  /\ req.endpoint = "recommend" /\ modelCalls = 1 /\ ~dbResult.error
  /\ dbResult.data = <<RowSparse, RowFull>>
  /\ IndexOf(modelRequest.system, "PROGRAMME: Finance", 1) > 0
  /\ IndexOf(modelRequest.system, "PROGRAMME: Finance", 1)
       < IndexOf(modelRequest.system, "PROGRAMME: MBA", 1)

\* C24: when the catalogue comes from the store it is one block per row, the
\* blocks joined by the separator; a block starts with the title line, has a
\* labelled line for a field exactly when the field is non-empty, and has those
\* lines in the order category, description, fee, format, location, start
\* date, target audience, why this programme, URL.
Labelled(p) ==
  << <<"Category", p.category>>, <<"Description", p.description>>, <<"Fee", p.fee>>,
     <<"Format", p.format>>, <<"Location", p.location>>, <<"Start date", p.start_date>>,
     <<"Target audience", p.target_audience>>,
     <<"Why this programme", p.why_this_programme>>, <<"URL", p.url>> >>
LinePos(lines, prefix) ==
  LET hits == {i \in 1..Len(lines) : StartsWith(lines[i], prefix)}
  IN  IF hits = {} THEN 0 ELSE CHOOSE i \in hits : \A j \in hits : i <= j
BlockRendersRow(block, p) ==
  LET lines == Split(block, "\n")
      f == Labelled(p)
      pos == [j \in 1..Len(f) |-> LinePos(lines, f[j][1] \o ": ")]
  IN  /\ lines[1] = "PROGRAMME: " \o p.title
      /\ \A j \in 1..Len(f) :
           /\ pos[j] > 0 <=> f[j][2] # ""
           /\ pos[j] > 0 => (pos[j] > 1 /\ StartsWith(lines[pos[j]] \o "\n",
                                                      f[j][1] \o ": " \o Split(f[j][2], "\n")[1] \o "\n"))
      /\ \A j, k \in 1..Len(f) : (j < k /\ pos[j] > 0 /\ pos[k] > 0) => pos[j] < pos[k]
C24_BlockPerRow ==
  (req.endpoint = "recommend" /\ dbResult.read /\ StoreHasRows)
  => LET blocks == Split(catalogue, "\n\n---\n\n")
     IN  /\ Len(blocks) = Len(dbResult.data)
         /\ \A k \in 1..Len(blocks) : BlockRendersRow(blocks[k], dbResult.data[k])
C24_Witness ==
  /\ req.endpoint = "recommend" /\ dbResult.read /\ ~dbResult.error
  /\ dbResult.data = <<RowFull, RowSparse>>
  /\ IndexOf(catalogue, "\n\n---\n\nPROGRAMME: Finance\nURL: https://v.be/fin", 1) > 0
  /\ IndexOf(catalogue, "Category: General\nDescription: Lead\nFee: 9k", 1) > 0

\* C28: the proxy answers every backend failure (a status that is not a
\* success, or a success body with an error member) with status 200 and a body
\* of the error member alone; a body with recommendations has no error member,
\* and each of its recommendations has the eight members, each a string.
BackendFailed ==
  /\ prx.reply.outcome = "response"
  /\ \/ ~(prx.reply.status >= 200 /\ prx.reply.status <= 299)
     \/ /\ prx.reply.isJson
        /\ prx.reply.doc.kind = "object"
        /\ prx.reply.doc.error.t \notin {"undefined", "null"}
        /\ prx.reply.doc.error # JString("")
FailureAs200 ==
  (prx.pc = "done" /\ BackendFailed) =>
    prx.response.status = 200 /\ prx.response.members = {"error"}
NeverBoth ==
  "recommendations" \in prx.response.members => "error" \notin prx.response.members
EightStrings ==
  \A i \in DOMAIN prx.response.recommendations :
    /\ DOMAIN prx.response.recommendations[i] = ProxyRecKeys
    /\ \A k \in ProxyRecKeys : prx.response.recommendations[i][k].t = "string"
C28_FailuresAs200AndStringFields == FailureAs200 /\ NeverBoth /\ EightStrings

\* C29: on the Index page, when the backend is down or returns no
\* recommendations the visitor gets a toast, no submission is saved and the
\* page does not navigate; saving and navigation happen only after a response
\* with a non-empty list of recommendations; when the flow ends loading is false.
BackendDown == prx.pc = "done" /\ prx.reply.outcome = "rejected"
BackendGaveRecs ==
  /\ prx.pc = "done"
  /\ prx.reply.outcome = "response"
  /\ prx.reply.status \in 200..299
  /\ prx.reply.isJson
  /\ prx.reply.doc.kind = "object"
  /\ prx.reply.doc.recommendations.k = "array"
  /\ Len(prx.reply.doc.recommendations.items) > 0
BackendGaveNone == prx.pc = "done" /\ prx.reply.outcome = "response" /\ ~BackendGaveRecs
C29_ToastOrNavigate ==
  /\ (page.saves > 0 \/ page.navigated) =>
       BackendGaveRecs /\ Len(prx.response.recommendations) > 0
  /\ page.pc = "done" =>
       /\ ~page.loading
       /\ (BackendDown \/ BackendGaveNone) =>
            Len(page.toasts) = 1 /\ page.saves = 0 /\ ~page.navigated
C29_Witness ==
  /\ page.pc = "done"
  /\ BackendDown
  /\ page.toasts = <<WentWrongToast>>
  /\ ~page.loading

\* C30: on the architecture page, under any sequence of Run and Reset clicks,
\* at most one node is active, a node becomes active only when every earlier
\* node is done, a node's status moves only idle -> active -> done unless a
\* reset sets every node idle, and when a run finishes all seven nodes are
\* done, progress is 100 and running is false.
AtMostOneActive == Cardinality({n \in Nodes : pipe.status[n] = "active"}) <= 1
ActivatedInOrder ==
  \A n \in Nodes :
    (pipe.status[n] # "active" /\ pipe'.status[n] = "active") =>
      \A m \in Nodes : m < n => pipe'.status[m] = "done"
WasReset ==
  \A n \in Nodes : pipe'.status[n] = "idle" \/ (n = 1 /\ pipe'.status[n] = "active")
MovesForward ==
  \/ WasReset
  \/ \A n \in Nodes :
       \/ pipe'.status[n] = pipe.status[n]
       \/ pipe.status[n] = "idle" /\ pipe'.status[n] = "active"
       \/ pipe.status[n] = "active" /\ pipe'.status[n] = "done"
FinishedAllDone ==
  \A k \in Slots :
    (pipe.runs[k].pc = "animating" /\ pipe'.runs[k].pc = "finished") =>
      /\ \A n \in Nodes : pipe'.status[n] = "done"
      /\ pipe'.progress = 100
      /\ ~pipe'.running
C30_StagesInSequence ==
  [][AtMostOneActive' /\ ActivatedInOrder /\ MovesForward /\ FinishedAllDone]_vars
====
